---------------------------- MODULE Spec2Model ----------------------------
(***************************************************************************)
(* A model of xpra's video capability registry, VideoHelper                *)
(* (src/xpra/codecs/video_helper.py): the three capability tables, the     *)
(* enabled-module lists, the lock-protected init()/cleanup() lifecycle,    *)
(* clone(), and set_modules() with its selection filter.                   *)
(*                                                                         *)
(* Python dictionaries and lists are mutable objects reached by reference: *)
(* they live in `heap`, and a registry holds the addresses of its three    *)
(* outer dictionaries.  Strings are TLA+ strings, so that startswith, the  *)
(* slice x[1:] and "enc_"+x are computed as the code computes them.        *)
(***************************************************************************)
EXTENDS Naturals, Integers, Sequences, FiniteSets, TLC

(***************************************************************************)
(* Bounds of the model.                                                    *)
(***************************************************************************)
NThreads == 2      \* threads calling into the registries
MaxClones == 1     \* registries created by clone() in one behaviour
MaxAdds == 1       \* direct add_encoder_spec/add_csc_spec/add_decoder calls
MaxSelLen == 2     \* length of a selection list given to set_modules

Threads == 1..NThreads
MainReg == 1
RegIds == 1..(1 + MaxClones)
NoThread == 0

(***************************************************************************)
(* Strings, as the code uses them.                                         *)
(***************************************************************************)
startswith(x, p) == Len(x) >= Len(p) /\ SubSeq(x, 1, Len(p)) = p

\* str.find(sub) >= 0
contains(x, sub) ==
    \E i \in 1..Len(x) : i + Len(sub) - 1 <= Len(x) /\ SubSeq(x, i, i + Len(sub) - 1) = sub

InSeq(x, s) == \E i \in 1..Len(s) : s[i] = x

RECURSIVE Filter(_, _)
\* [x for x in s if x in keep], order kept
Filter(s, keep) ==
    IF s = <<>> THEN <<>>
    ELSE IF Head(s) \in keep THEN <<Head(s)>> \o Filter(Tail(s), keep)
         ELSE Filter(Tail(s), keep)

SeqRange(s) == {s[i] : i \in 1..Len(s)}

(***************************************************************************)
(* The module prober and the catalog.                                      *)
(***************************************************************************)
CODEC_TO_MODULE ==
    [c \in {"vpx", "x264", "x265", "nvenc", "swscale", "cython", "libyuv", "avcodec2", "ffmpeg"} |->
        CASE c = "vpx" -> "vpx"
          [] c = "x264" -> "enc_x264"
          [] c = "x265" -> "enc_x265"
          [] c = "nvenc" -> "nvenc"
          [] c = "swscale" -> "csc_swscale"
          [] c = "cython" -> "csc_cython"
          [] c = "libyuv" -> "csc_libyuv"
          [] c = "avcodec2" -> "dec_avcodec2"
          [] c = "ffmpeg" -> "enc_ffmpeg"]

\* The python modules importable on this machine (the environment of the prober).
InstalledModules == {"enc_x264", "vpx", "nvenc", "csc_swscale", "csc_libyuv", "dec_avcodec2"}

has_codec_module(module_name) == module_name \in InstalledModules

try_import_modules(codec_names) ==
    Filter(codec_names, {c \in SeqRange(codec_names) : has_codec_module(CODEC_TO_MODULE[c])})

ALL_VIDEO_ENCODER_OPTIONS == try_import_modules(<<"x264", "vpx", "x265", "nvenc", "ffmpeg">>)
ALL_CSC_MODULE_OPTIONS == try_import_modules(<<"swscale", "cython", "libyuv">>)
ALL_VIDEO_DECODER_OPTIONS == try_import_modules(<<"avcodec2", "vpx">>)

get_encoder_module_name(x) == IF contains(x, "enc") THEN x ELSE "enc_" \o x
get_decoder_module_name(x) == "dec_" \o x
get_csc_module_name(x) == "csc_" \o x

(***************************************************************************)
(* The module loader (xpra.codecs.loader) and the codec modules: what each *)
(* loadable codec declares.  A declaration is a sequence of <<k1, k2>>     *)
(* format pairs in the order the module enumerates them.                   *)
(***************************************************************************)
KnownCodecs ==
    {"enc_x264", "enc_vpx", "nvenc", "csc_swscale", "csc_libyuv", "dec_avcodec2", "dec_vpx"}

\* encoders: <<encoding, input colorspace>>; csc: <<input, output>>;
\* decoders: <<encoding, input colorspace>>
DeclaredPairs(codec) ==
    CASE codec = "enc_x264" -> << <<"h264", "YUV420P">> >>
      [] codec = "nvenc" -> << <<"h264", "YUV420P">>, <<"h264", "BGRX">> >>
      [] codec = "enc_vpx" -> << <<"vp8", "YUV420P">> >>
      [] codec = "csc_swscale" -> << <<"BGRX", "YUV420P">>, <<"YUV420P", "BGRX">> >>
      [] codec = "csc_libyuv" -> << <<"BGRX", "YUV420P">> >>
      [] codec = "dec_avcodec2" -> << <<"h264", "YUV420P">>, <<"vp8", "YUV420P">> >>
      [] codec = "dec_vpx" -> << <<"vp8", "YUV420P">>, <<"vp9", "YUV444P">> >>
      [] OTHER -> <<>>

\* "ok": loads, declares and tears down; "absent": cannot be loaded; "raises":
\* raises while it declares; "raises_teardown": its cleanup_module() raises
FaultModes == {"ok", "absent", "raises", "raises_teardown"}
AllOk == [c \in KnownCodecs |-> "ok"]
\* The fault configurations explored: every codec sound; one encoder whose
\* introspection raises after its first pair; one decoder that cannot be loaded.
FaultConfigs ==
    { AllOk,
      [AllOk EXCEPT !["nvenc"] = "raises", !["dec_avcodec2"] = "absent"] }


(***************************************************************************)
(* State.                                                                  *)
(***************************************************************************)
VARIABLES
    heap,      \* [dicts, lists]: the dictionary and list objects, by address
    reg,       \* the VideoHelper objects, by registry id
    codecs,    \* the loader's table of loaded codecs (process-wide)
    fault,     \* how each codec module behaves when loaded and introspected
    pc,        \* where each thread is
    op,        \* the operation each thread is in, or has last completed
    self,      \* the registry that operation is called on
    iter,      \* the rest of the module list a thread's population loop walks
    frame,     \* the other local variables of the call each thread is in
    newreg,    \* the registry id of the VideoHelper a thread's clone() is building
    out,       \* what the thread's operation has raised or logged
    adds,      \* direct add_* calls made so far
    sel,       \* the arguments of the set_modules call under examination
    torn,      \* the modules whose cleanup_module() has been invoked, in order
    ret,       \* the last query made of a registry and what it returned
    instance,  \* the module's global `instance`: the default VideoHelper, or none
    got,       \* the VideoHelper getVideoHelper() has returned to each thread
    sound,     \* the fields of a SoundPipeline
    glib       \* the main loop the SoundPipeline runs on: its sources and signals

vars == <<heap, reg, codecs, fault, pc, op, self, iter, frame, newreg, out, adds, sel, torn, ret,
          instance, got, sound, glib>>

(***************************************************************************)
(* Dictionaries and lists on the heap.  A dictionary object is the         *)
(* insertion-ordered sequence of its <<key, address>> items; a list object *)
(* is the sequence of its values.  An object created for registry r gets   *)
(* an address naming r, the table and the path of keys it was created      *)
(* under: <<>> for the table itself, <<k1>> for an inner dictionary and    *)
(* <<k1, k2>> for a list, so that no key makes two objects share one.      *)
(***************************************************************************)
TableNames == {"_video_encoder_specs", "_csc_encoder_specs", "_video_decoder_specs"}

Addr(r, tbl, path) == <<r, tbl, path>>
Owner(a) == a[1]

EmptyHeap == [dicts |-> <<>>, lists |-> <<>>]

DictKeys(d) == [i \in 1..Len(d) |-> d[i][1]]
DictHas(d, k) == \E i \in 1..Len(d) : d[i][1] = k
DictGet(d, k) == d[CHOOSE i \in 1..Len(d) : d[i][1] = k][2]

\* d.setdefault(k1, {}).setdefault(k2, []).append(v) on the dictionary at `root`;
\* the objects it has to create are created for registry r.
SetDefaultPrepend(h, root, r, tbl, k1, k2, v) ==
    LET outer == h.dicts[root]
        a1 == IF DictHas(outer, k1) THEN DictGet(outer, k1) ELSE Addr(r, tbl, <<k1>>)
        h1 == IF DictHas(outer, k1) THEN h
              ELSE [h EXCEPT !.dicts = (a1 :> <<>>) @@ [@ EXCEPT ![root] = Append(@, <<k1, a1>>)]]
        inner == h1.dicts[a1]
        a2 == IF DictHas(inner, k2) THEN DictGet(inner, k2) ELSE Addr(r, tbl, <<k1, k2>>)
        h2 == IF DictHas(inner, k2) THEN h1
              ELSE [h1 EXCEPT !.dicts[a1] = Append(@, <<k2, a2>>),
                              !.lists = (a2 :> <<>>) @@ @]
    IN  [h2 EXCEPT !.lists[a2] = <<v>> \o @]

SetDefaultAssign(h, root, r, tbl, k1, k2, v) ==
    LET outer == h.dicts[root]
        a1 == IF DictHas(outer, k1) THEN DictGet(outer, k1) ELSE Addr(r, tbl, <<k1>>)
        h1 == IF DictHas(outer, k1) THEN h
              ELSE [h EXCEPT !.dicts = (a1 :> <<>>) @@ [@ EXCEPT ![root] = Append(@, <<k1, a1>>)]]
        inner == h1.dicts[a1]
        a2 == IF DictHas(inner, k2) THEN DictGet(inner, k2) ELSE Addr(r, tbl, <<k1, k2>>)
        h2 == IF DictHas(inner, k2) THEN h1
              ELSE [h1 EXCEPT !.dicts[a1] = Append(@, <<k2, a2>>),
                              !.lists = (a2 :> <<>>) @@ @]
    IN  [h2 EXCEPT !.lists[a2] = <<v>>]

SetDefaultAppend(h, root, r, tbl, k1, k2, v) ==
    LET outer == h.dicts[root]
        a1 == IF DictHas(outer, k1) THEN DictGet(outer, k1) ELSE Addr(r, tbl, <<k1>>)
        h1 == IF DictHas(outer, k1) THEN h
              ELSE [h EXCEPT !.dicts = (a1 :> <<>>) @@ [@ EXCEPT ![root] = Append(@, <<k1, a1>>)]]
        inner == h1.dicts[a1]
        a2 == IF DictHas(inner, k2) THEN DictGet(inner, k2) ELSE Addr(r, tbl, <<k1, k2>>)
        h2 == IF DictHas(inner, k2) THEN h1
              ELSE [h1 EXCEPT !.dicts[a1] = Append(@, <<k2, a2>>),
                              !.lists = (a2 :> <<>>) @@ @]
    IN  [h2 EXCEPT !.lists[a2] = Append(@, v)]

RECURSIVE SetDefaultAppendAll(_, _, _, _, _)
\* one SetDefaultAppend per <<k1, k2, v>> of `triples`, in order
SetDefaultAppendAll(h, root, r, tbl, triples) ==
    IF triples = <<>> THEN h
    ELSE SetDefaultAppendAll(
             SetDefaultAppend(h, root, r, tbl, triples[1][1], triples[1][2], triples[1][3]),
             root, r, tbl, Tail(triples))

\* A new empty dictionary for registry r's table tbl: {}
NewDict(h, r, tbl) == [h EXCEPT !.dicts = (Addr(r, tbl, <<>>) :> <<>>) @@ @]

\* The contents of the two-level dictionary at `root`, references followed:
\* the sequence of <<k1, sequence of <<k2, list>>>> in insertion order.
TableOf(h, root) ==
    [i \in 1..Len(h.dicts[root]) |->
        <<h.dicts[root][i][1],
          [j \in 1..Len(h.dicts[h.dicts[root][i][2]]) |->
              <<h.dicts[h.dicts[root][i][2]][j][1],
                h.lists[h.dicts[h.dicts[root][i][2]][j][2]]>>]>>]

RECURSIVE Concat(_)
Concat(ss) == IF ss = <<>> THEN <<>> ELSE Head(ss) \o Concat(Tail(ss))

\* for k1, d in table.items(): for k2, l in d.items(): for v in l: <<k1, k2, v>>
Triples(table) ==
    Concat([i \in 1..Len(table) |->
        Concat([j \in 1..Len(table[i][2]) |->
            [n \in 1..Len(table[i][2][j][2]) |->
                <<table[i][1], table[i][2][j][1], table[i][2][j][2][n]>>]])])

\* every address reachable from the dictionary at `root`
Reachable(h, root) ==
    {root}
    \cup {h.dicts[root][i][2] : i \in 1..Len(h.dicts[root])}
    \cup UNION {{h.dicts[h.dicts[root][i][2]][j][2] : j \in 1..Len(h.dicts[h.dicts[root][i][2]])} :
                    i \in 1..Len(h.dicts[root])}

(***************************************************************************)
(* VideoHelper.                                                            *)
(***************************************************************************)
\* VideoHelper.__init__(vencspecs, cscspecs, vdecspecs, init): each argument is
\* the address of a dictionary, or None
None == <<>>

VideoHelper(vencspecs, cscspecs, vdecspecs, init) ==
    [ _video_encoder_specs |-> vencspecs,
      _csc_encoder_specs |-> cscspecs,
      _video_decoder_specs |-> vdecspecs,
      video_encoders |-> <<>>,
      csc_modules |-> <<>>,
      video_decoders |-> <<>>,
      _cleanup_modules |-> <<>>,
      _initialized |-> init,
      _lock |-> NoThread ]

\* `x or {}` for the three tables of a new VideoHelper r: a new dictionary where
\* the argument is None or an empty dictionary
OrNewDicts(h, r, args) ==
    LET need(tbl) == args[tbl] = None \/ h.dicts[args[tbl]] = <<>>
        h1 == IF need("_video_encoder_specs") THEN NewDict(h, r, "_video_encoder_specs") ELSE h
        h2 == IF need("_csc_encoder_specs") THEN NewDict(h1, r, "_csc_encoder_specs") ELSE h1
    IN  IF need("_video_decoder_specs") THEN NewDict(h2, r, "_video_decoder_specs") ELSE h2

OrNewAddr(h, r, args, tbl) ==
    IF args[tbl] = None \/ h.dicts[args[tbl]] = <<>> THEN Addr(r, tbl, <<>>) ELSE args[tbl]

\* The tables of registry r as values
Table(r, tbl) == TableOf(heap, reg[r][tbl])
Tables(r) == [tbl \in TableNames |-> Table(r, tbl)]
EmptyTables == [tbl \in TableNames |-> <<>>]

get_encodings(r) == DictKeys(heap.dicts[reg[r]._video_encoder_specs])
get_decodings(r) == DictKeys(heap.dicts[reg[r]._video_decoder_specs])
get_csc_inputs(r) == DictKeys(heap.dicts[reg[r]._csc_encoder_specs])

(***************************************************************************)
(* set_modules and its filter.                                             *)
(***************************************************************************)
\* filt with the exclusions applied to the given names only, before "all" is
\* expanded
filt_exclusions_first(inlist, all_list) ==
    LET excluded == Filter(inlist, {x \in SeqRange(inlist) : x # "" /\ startswith(x, "-")})
        exclist == [i \in 1..Len(excluded) |-> Tail(excluded[i])]
        inclist0 == Filter(inlist, {x \in SeqRange(inlist) : x # "" /\ ~startswith(x, "-")})
        inclist == Filter(inclist0, {x \in SeqRange(inclist0) : ~InSeq(x, exclist)})
    IN  IF InSeq("all", inclist) THEN all_list ELSE inclist

\* set_modules.filt(name, inlist, all_list); the warning it logs is no state
filt(inlist, all_list) ==
    LET excluded == Filter(inlist, {x \in SeqRange(inlist) : x # "" /\ startswith(x, "-")})
        exclist == [i \in 1..Len(excluded) |-> Tail(excluded[i])]
        inclist0 == Filter(inlist, {x \in SeqRange(inlist) : x # "" /\ ~startswith(x, "-")})
        inclist == IF InSeq("all", inclist0) THEN all_list ELSE inclist0
    IN  Filter(inclist, {x \in SeqRange(inclist) : ~InSeq(x, exclist)})

\* the body of set_modules after its assertion
\* One of the three assignments that end set_modules, each to one field:
\* self.video_encoders = filt(video_encoders, ALL_VIDEO_ENCODER_OPTIONS), then
\* self.csc_modules, then self.video_decoders; args = <<video_encoders,
\* csc_modules, video_decoders>>
set_modules_assign(h, field, args) ==
    CASE field = "video_encoders" ->
             [h EXCEPT !.video_encoders = filt(args[1], ALL_VIDEO_ENCODER_OPTIONS)]
      [] field = "csc_modules" ->
             [h EXCEPT !.csc_modules = filt(args[2], ALL_CSC_MODULE_OPTIONS)]
      [] field = "video_decoders" ->
             [h EXCEPT !.video_decoders = filt(args[3], ALL_VIDEO_DECODER_OPTIONS)]

\* set_modules run to its end with no other thread in between
set_modules(h, video_encoders, csc_modules, video_decoders) ==
    LET args == <<video_encoders, csc_modules, video_decoders>>
    IN  set_modules_assign(
            set_modules_assign(
                set_modules_assign(h, "video_encoders", args),
                "csc_modules", args),
            "video_decoders", args)

(***************************************************************************)
(* The loader, and the population of the tables from one module.           *)
(***************************************************************************)
NoCodec == ""

\* loader.load_codec(name): the codec is recorded when its import succeeds
load_codec(cs, f, name) ==
    IF name \in KnownCodecs /\ f[name] # "absent" THEN cs \cup {name} ELSE cs

\* loader.get_codec(name): the module handle, or None
get_codec(cs, name) == IF name \in cs THEN name ELSE NoCodec

\* module.get_spec(k1, k2)
get_spec(codec, k1, k2) == <<"spec", codec, k1, k2>>

\* The pairs a module gets through before its introspection raises: a module
\* that "raises" does so on the last pair it declares.
PairsBeforeError(f, codec) ==
    IF f[codec] = "raises" THEN SubSeq(DeclaredPairs(codec), 1, Len(DeclaredPairs(codec)) - 1)
    ELSE DeclaredPairs(codec)

add_encoder_spec(h, root, r, encoding, colorspace, spec) ==
    SetDefaultAppend(h, root, r, "_video_encoder_specs", encoding, colorspace, spec)

add_csc_spec(h, root, r, in_csc, out_csc, spec) ==
    SetDefaultAppend(h, root, r, "_csc_encoder_specs", in_csc, out_csc, spec)

add_decoder(h, root, r, encoding, colorspace, decoder_name, decoder_module) ==
    SetDefaultAppend(h, root, r, "_video_decoder_specs", encoding, colorspace,
                     <<decoder_name, decoder_module>>)

RECURSIVE AddEncoderSpecs(_, _, _, _, _)
AddEncoderSpecs(h, root, r, codec, pairs) ==
    IF pairs = <<>> THEN h
    ELSE AddEncoderSpecs(
             add_encoder_spec(h, root, r, pairs[1][1], pairs[1][2],
                              get_spec(codec, pairs[1][1], pairs[1][2])),
             root, r, codec, Tail(pairs))

RECURSIVE AddCscSpecs(_, _, _, _, _)
AddCscSpecs(h, root, r, codec, pairs) ==
    IF pairs = <<>> THEN h
    ELSE AddCscSpecs(
             add_csc_spec(h, root, r, pairs[1][1], pairs[1][2],
                          get_spec(codec, pairs[1][1], pairs[1][2])),
             root, r, codec, Tail(pairs))

RECURSIVE AddDecoders(_, _, _, _, _)
AddDecoders(h, root, r, codec, pairs) ==
    IF pairs = <<>> THEN h
    ELSE AddDecoders(
             add_decoder(h, root, r, pairs[1][1], pairs[1][2], codec, codec),
             root, r, codec, Tail(pairs))

init_video_encoder_option(h, root, r, cs, f, encoder_name) ==
    IF get_codec(cs, encoder_name) = NoCodec THEN h
    ELSE AddEncoderSpecs(h, root, r, encoder_name, PairsBeforeError(f, encoder_name))

init_csc_option(h, root, r, cs, f, csc_name) ==
    IF get_codec(cs, csc_name) = NoCodec THEN h
    ELSE AddCscSpecs(h, root, r, csc_name, PairsBeforeError(f, csc_name))

init_video_decoder_option(h, root, r, cs, f, decoder_name) ==
    IF get_codec(cs, decoder_name) = NoCodec THEN h
    ELSE AddDecoders(h, root, r, decoder_name, PairsBeforeError(f, decoder_name))

Phases == {"enc", "csc", "dec"}
PhaseTable(ph) ==
    CASE ph = "enc" -> "_video_encoder_specs"
      [] ph = "csc" -> "_csc_encoder_specs"
      [] ph = "dec" -> "_video_decoder_specs"
PhaseList(ph) ==
    CASE ph = "enc" -> "video_encoders"
      [] ph = "csc" -> "csc_modules"
      [] ph = "dec" -> "video_decoders"
NextPhase(ph) ==
    CASE ph = "enc" -> "csc"
      [] ph = "csc" -> "dec"
      [] ph = "dec" -> "done"

\* mod = get_encoder_module_name(x), get_csc_module_name(x) or
\* get_decoder_module_name(x)
ModuleName(ph, x) ==
    CASE ph = "enc" -> get_encoder_module_name(x)
      [] ph = "csc" -> get_csc_module_name(x)
      [] ph = "dec" -> get_decoder_module_name(x)

\* the try/except around the loop instead of inside it: a module that raises
\* ends the loop of its phase
remaining_modules_abort_on_error(f, ph, xs) ==
    IF ModuleName(ph, Head(xs)) \in DOMAIN f /\ f[ModuleName(ph, Head(xs))] = "raises"
    THEN <<>> ELSE Tail(xs)

\* `for x in self.<modules>: try: ... except Exception: log`: the modules the
\* loop goes on to after x = Head(xs), whatever x did
remaining_modules(f, ph, xs) == Tail(xs)

\* What init_video_encoder_option, init_csc_option or init_video_decoder_option
\* registers for module mod, one add_* call per item and in the order of the
\* calls: <<k1, k2, value>>.  Nothing for a module the loader does not have.
Registrations(cs, f, ph, mod) ==
    IF get_codec(cs, mod) = NoCodec THEN <<>>
    ELSE [i \in 1..Len(PairsBeforeError(f, mod)) |->
             LET pair == PairsBeforeError(f, mod)[i]
             IN  <<pair[1], pair[2],
                   IF ph = "dec" THEN <<mod, mod>> ELSE get_spec(mod, pair[1], pair[2])>>]

\* the add_encoder_spec, add_csc_spec or add_decoder call that registers e
Register(h, root, r, ph, e) ==
    CASE ph = "enc" -> add_encoder_spec(h, root, r, e[1], e[2], e[3])
      [] ph = "csc" -> add_csc_spec(h, root, r, e[1], e[2], e[3])
      [] ph = "dec" -> add_decoder(h, root, r, e[1], e[2], e[3][1], e[3][2])

\* One iteration of the loop of init_video_encoders_options, init_csc_options
\* or init_video_decoders_options: module x is loaded and introspected, every
\* exception caught.  Yields the heap and the loader's table.
PopulateModule(h, root, r, cs, f, ph, x) ==
    LET mod == ModuleName(ph, x)
        cs1 == load_codec(cs, f, mod)
    IN  [heap |-> CASE ph = "enc" -> init_video_encoder_option(h, root, r, cs1, f, mod)
                    [] ph = "csc" -> init_csc_option(h, root, r, cs1, f, mod)
                    [] ph = "dec" -> init_video_decoder_option(h, root, r, cs1, f, mod),
         codecs |-> cs1]

RECURSIVE PopulateAll(_, _, _, _, _, _, _)
\* the whole loop of one phase over the module list xs
PopulateAll(h, root, r, cs, f, ph, xs) ==
    IF xs = <<>> THEN [heap |-> h, codecs |-> cs]
    ELSE LET one == PopulateModule(h, root, r, cs, f, ph, Head(xs))
         IN  PopulateAll(one.heap, root, r, one.codecs, f, ph, remaining_modules(f, ph, xs))

(***************************************************************************)
(* clone()'s copy, and the garbage collector.                              *)
(***************************************************************************)
\* for v in l: outd.setdefault(enc, {}).setdefault(ifmt, []).append(v), with
\* only the last value of l kept
clone_values_keep_last(h, outd, r, tbl, enc, ifmt, l) ==
    IF l = <<>> THEN h
    ELSE SetDefaultAppend(h, outd, r, tbl, enc, ifmt, l[Len(l)])

\* for v in l: outd.setdefault(enc, {}).setdefault(ifmt, []).append(v): the
\* values of one inner list of indict, copied to the dictionary at outd
clone_values(h, outd, r, tbl, enc, ifmt, l) ==
    SetDefaultAppendAll(h, outd, r, tbl, [n \in 1..Len(l) |-> <<enc, ifmt, l[n]>>])

\* VideoHelper(self._video_encoder_specs, self._csc_encoder_specs,
\* self._video_decoder_specs, True): the source's own dictionaries handed over
clone_result_shared(regs, src, new) == [tbl \in TableNames |-> regs[src][tbl]]

\* the ves, ces and vds of `return VideoHelper(ves, ces, vds, True)`: the three
\* dictionaries the copy has built for the registry `new`
clone_result(regs, src, new) == [tbl \in TableNames |-> Addr(new, tbl, <<>>)]

\* Objects no registry reaches are freed; the dictionaries a running clone() has
\* built so far are held by that call's local variables.
Collect(h, regs, building) ==
    LET live == UNION {Reachable(h, regs[r][tbl]) : r \in DOMAIN regs, tbl \in TableNames}
        keep(a) == a \in live \/ Owner(a) \in building
    IN  [dicts |-> [a \in {x \in DOMAIN h.dicts : keep(x)} |-> h.dicts[a]],
         lists |-> [a \in {x \in DOMAIN h.lists : keep(x)} |-> h.lists[a]]]

Building == {newreg[t] : t \in Threads}

(***************************************************************************)
(* Initial state: the default VideoHelper, VideoHelper(), not initialized. *)
(***************************************************************************)
NoArgs == [tbl \in TableNames |-> None]

\* The local variables of a call, beside `iter` and `newreg`:
\*   args      the arguments set_modules was called with;
\*   todo      what the module under introspection has yet to register;
\*   sub       where deepish_clone_dict is: "" before it is called, "outer"
\*             and "inner" at the head of the loop over indict.items() and
\*             over d.items(), "list" at the loop over l;
\*   i, j      how many items the outer and the inner iterator have yielded;
\*   osize, isize   the size each iterator took of its dictionary when it
\*             was made, NoSize until then;
\*   detached, frozen   whether indict is no longer the table of the source
\*             (cleanup() bound the field to a new dictionary), and if so
\*             the contents of indict, which nothing changes any more.
NoSize == -1
NoFrame == [args |-> <<>>, todo |-> <<>>, sub |-> "", i |-> 0, j |-> 0,
            osize |-> NoSize, isize |-> NoSize, detached |-> FALSE, frozen |-> <<>>]

\* no query made yet
NoResult == [call |-> "", self |-> 0, args |-> <<>>, raised |-> FALSE, value |-> <<>>]

NewVideoHelper(h, r, args, init) ==
    VideoHelper(OrNewAddr(h, r, args, "_video_encoder_specs"),
                OrNewAddr(h, r, args, "_csc_encoder_specs"),
                OrNewAddr(h, r, args, "_video_decoder_specs"), init)

(***************************************************************************)
(* SoundPipeline (xpra.sound.sound_pipeline) on the GLib main loop.  The   *)
(* methods take and return w = [sound, glib]: the object's fields and the  *)
(* main loop's pending sources.  A source is [id, fn, arg]: the callback   *)
(* timeout_add or idle_add was given and its argument.                     *)
(***************************************************************************)
MaxSources == 4        \* source ids handed out by timeout_add and idle_add
MaxBufferCount == 1    \* buffers counted by inc_buffer_count
MaxByteCount == 1      \* bytes counted by inc_byte_count

NoSource == 0
PyNone == "None"
\* an attribute __init__ does not set: reading it raises AttributeError
NoAttribute == "AttributeError"

\* bool(x) of a string or None
truth(x) == x # PyNone /\ x # ""

\* str.lower() of one ASCII character
lower_char(ch) ==
    CASE ch = "A" -> "a"
      [] ch = "B" -> "b"
      [] ch = "C" -> "c"
      [] ch = "D" -> "d"
      [] ch = "E" -> "e"
      [] ch = "F" -> "f"
      [] ch = "G" -> "g"
      [] ch = "H" -> "h"
      [] ch = "I" -> "i"
      [] ch = "J" -> "j"
      [] ch = "K" -> "k"
      [] ch = "L" -> "l"
      [] ch = "M" -> "m"
      [] ch = "N" -> "n"
      [] ch = "O" -> "o"
      [] ch = "P" -> "p"
      [] ch = "Q" -> "q"
      [] ch = "R" -> "r"
      [] ch = "S" -> "s"
      [] ch = "T" -> "t"
      [] ch = "U" -> "u"
      [] ch = "V" -> "v"
      [] ch = "W" -> "w"
      [] ch = "X" -> "x"
      [] ch = "Y" -> "y"
      [] ch = "Z" -> "z"
      [] OTHER -> ch

RECURSIVE lower(_)
\* str.lower(), of ASCII text
lower(x) ==
    IF Len(x) = 0 THEN x
    ELSE lower_char(SubSeq(x, 1, 1)) \o lower(SubSeq(x, 2, Len(x)))

RECURSIVE split(_, _)
\* str.split(sep), sep being one character
split(x, sep) ==
    LET at == {i \in 1..Len(x) : SubSeq(x, i, i) = sep}
    IN  IF at = {} THEN <<x>>
        ELSE LET i == CHOOSE i \in at : \A j \in at : i <= j
             IN  <<SubSeq(x, 1, i - 1)>> \o split(SubSeq(x, i + 1, Len(x)), sep)

\* the main loop before the pipeline is set up: no source pending, no bus
\* handler connected
NewMainLoop == [sources |-> {}, next |-> 1, connected |-> FALSE, info_emitted |-> 0]

\* SoundPipeline.__init__(codec); self.volume is left unset
SoundPipeline(codec) ==
    [stream_compressor |-> PyNone, codec |-> codec, codec_description |-> "",
     codec_mode |-> "", container_format |-> "", container_description |-> "",
     bus |-> FALSE, bus_message_handler_id |-> FALSE, bitrate |-> -1,
     pipeline |-> FALSE, state |-> "stopped", buffer_count |-> 0,
     byte_count |-> 0, emit_info_timer |-> NoSource, volume |-> NoAttribute,
     info |-> {"codec", "state"}]

\* GLib.timeout_add(delay, fn, arg): the id it returns is w.glib.next
timeout_add(w, fn, arg) ==
    [w EXCEPT !.glib.sources = @ \cup {[id |-> w.glib.next, fn |-> fn, arg |-> arg]},
              !.glib.next = @ + 1]

\* GLib.idle_add(self.emit, sig)
idle_emit(w, sig) ==
    [w EXCEPT !.glib.sources = @ \cup {[id |-> w.glib.next, fn |-> "emit", arg |-> sig]},
              !.glib.next = @ + 1]

\* GLib.source_remove(id)
source_remove(w, id) == [w EXCEPT !.glib.sources = {s \in @ : s.id # id}]

\* emit_info() without the check of a pending timer
emit_info_unchecked(w) ==
    [timeout_add(w, "do_emit_info", "") EXCEPT !.sound.emit_info_timer = w.glib.next]

emit_info(w) ==
    IF w.sound.emit_info_timer # NoSource THEN w
    ELSE [timeout_add(w, "do_emit_info", "") EXCEPT !.sound.emit_info_timer = w.glib.next]

\* the timer's callback: emit("info", info) when the pipeline is still there
do_emit_info(w) ==
    LET w1 == [w EXCEPT !.sound.emit_info_timer = NoSource]
    IN  IF w1.sound.pipeline
        THEN [w1 EXCEPT !.sound.info = {}, !.glib.info_emitted = @ + 1]
        ELSE w1

cancel_emit_info_timer(w) ==
    IF w.sound.emit_info_timer # NoSource
    THEN source_remove([w EXCEPT !.sound.emit_info_timer = NoSource], w.sound.emit_info_timer)
    ELSE w

do_get_state(w, state) ==
    IF ~w.sound.pipeline THEN "stopped"
    ELSE CASE state = "PLAYING" -> "active"
           [] state = "PAUSED" -> "paused"
           [] state = "NULL" -> "stopped"
           [] state = "READY" -> "ready"
           [] OTHER -> "unknown"

update_bitrate(w, new_bitrate) ==
    IF new_bitrate = w.sound.bitrate THEN w
    ELSE [w EXCEPT !.sound.bitrate = new_bitrate, !.sound.info = @ \cup {"bitrate"}]

update_state(w, state) ==
    [w EXCEPT !.sound.state = state, !.sound.info = @ \cup {"state"}]

inc_buffer_count(w, inc) ==
    [w EXCEPT !.sound.buffer_count = @ + inc, !.sound.info = @ \cup {"buffer_count"}]

inc_byte_count(w, count) ==
    [w EXCEPT !.sound.byte_count = @ + count, !.sound.info = @ \cup {"bytes"}]

\* set_volume(volume); `raised` when self.volume was never assigned
set_volume(w, volume) ==
    IF w.sound.volume = NoAttribute THEN [w |-> w, raised |-> TRUE]
    ELSE IF w.sound.volume = PyNone THEN [w |-> w, raised |-> FALSE]
    ELSE [w |-> [w EXCEPT !.sound.info = @ \cup {"volume"}], raised |-> FALSE]

new_codec_description(w, desc) ==
    IF desc = "" THEN w
    ELSE LET dl == lower(desc)
         IN  IF dl = "wav" /\ w.sound.codec_description # "" THEN w
             ELSE [w EXCEPT !.sound.codec_description = dl,
                            !.sound.info = @ \cup {"codec_description"}]

new_container_description(w, desc) ==
    IF desc = "" THEN w
    ELSE LET ld == lower(desc)
             dl == CASE ld = "mka" -> "matroska"
                     [] ld = "mpeg4" -> "iso fmp4"
                     [] OTHER -> ld
         IN  [w EXCEPT !.sound.container_description = dl,
                       !.sound.info = @ \cup {"container_description"}]

\* start(); `raised` when self.codec is None on a pipeline that is set: the
\* split raises AttributeError after emit_info() has run
start(w) ==
    IF ~w.sound.pipeline THEN [w |-> w, raised |-> FALSE]
    ELSE LET sc == w.sound.stream_compressor
             w1 == update_state(idle_emit(w, "new-stream"), "active")
             w2 == IF truth(sc)
                   THEN [w1 EXCEPT !.sound.info = @ \cup {"stream-compressor"}]
                   ELSE w1
             w3 == emit_info(w2)
             parts == split(w.sound.codec, "+")
             w4 == timeout_add(w3, "new_codec_description", parts[1])
             w5 == IF Len(parts) > 1 /\ parts[2] # sc
                   THEN timeout_add(w4, "new_container_description", parts[2])
                   ELSE IF truth(w.sound.container_format)
                   THEN timeout_add(w4, "new_container_description",
                                    w.sound.container_format)
                   ELSE w4
         IN  IF w.sound.codec = PyNone THEN [w |-> w3, raised |-> TRUE]
             ELSE [w |-> IF truth(sc) THEN timeout_add(w5, "logsc", "") ELSE w5,
                   raised |-> FALSE]

stop(w) ==
    IF ~w.sound.pipeline THEN w
    ELSE update_state([w EXCEPT !.sound.pipeline = FALSE], "stopped")

cleanup(w) ==
    LET w1 == stop(cancel_emit_info_timer(w))
    IN  IF ~w1.sound.bus THEN w1
        ELSE [w1 EXCEPT !.sound.bus = FALSE,
                        !.sound.bus_message_handler_id = FALSE,
                        !.glib.connected = ~w1.sound.bus_message_handler_id /\ @,
                        !.sound.pipeline = FALSE,
                        !.sound.codec = PyNone,
                        !.sound.bitrate = -1,
                        !.sound.state = PyNone,
                        !.sound.volume = PyNone,
                        !.sound.info = {}]

\* setup_pipeline_and_bus(elements); `launched` is whether gst.parse_launch
\* built the pipeline
setup_pipeline_and_bus(w, launched) ==
    IF ~launched THEN cleanup([w EXCEPT !.sound.pipeline = FALSE])
    ELSE [w EXCEPT !.sound.pipeline = TRUE,
                   !.sound.bus = TRUE,
                   !.sound.bus_message_handler_id = TRUE,
                   !.glib.connected = TRUE,
                   !.sound.info = @ \cup {"pipeline"}]

\* parse_message(message): the tags of a TAG message, in the order the code
\* reads them.  A tag the message does not carry is -1 (bitrate) or ""
parse_message(w, message) ==
    LET w1 == IF message.bitrate >= 0 THEN update_bitrate(w, message.bitrate) ELSE w
        w2 == new_codec_description(w1, message.codec)
        w3 == new_codec_description(w2, message.audio_codec)
        w4 == IF message.mode # "" /\ w3.sound.codec_mode # message.mode
              THEN [w3 EXCEPT !.sound.codec_mode = message.mode,
                              !.sound.info = @ \cup {"codec_mode"}]
              ELSE w3
    IN  new_container_description(w4, message.container_format)

\* on_message(bus, message), message being [type, new_state, from_pipeline,
\* bitrate, codec, audio_codec, mode, container_format]; `raised` when the
\* handler is left by an exception (self.pipeline or self.codec is None)
on_message(w, message) ==
    LET t == message.type
        done(w1) == [w |-> emit_info(w1), raised |-> FALSE]
    IN  CASE t = "EOS" ->
                 IF ~w.sound.pipeline THEN [w |-> w, raised |-> TRUE]
                 ELSE done(idle_emit(update_state(w, "stopped"), "state-changed"))
          [] t = "ERROR" ->
                 IF ~w.sound.pipeline THEN [w |-> w, raised |-> TRUE]
                 ELSE done(cleanup(idle_emit(update_state(w, "error"), "error")))
          [] t = "TAG" -> done(parse_message(w, message))
          [] t = "STREAM_START" ->
                 IF w.sound.codec = PyNone THEN [w |-> w, raised |-> TRUE]
                 ELSE done(timeout_add(w, "new_codec_description",
                                       split(w.sound.codec, "+")[1]))
          [] t = "STATE_CHANGED" ->
                 IF message.from_pipeline
                 THEN done(idle_emit(update_state(w, do_get_state(w, message.new_state)),
                                     "state-changed"))
                 ELSE done(w)
          [] OTHER -> done(w)

\* what the main loop does when source s is due: the source is one-shot
dispatch(w, s) ==
    LET w1 == source_remove(w, s.id)
    IN  CASE s.fn = "do_emit_info" -> do_emit_info(w1)
          [] s.fn = "new_codec_description" -> new_codec_description(w1, s.arg)
          [] s.fn = "new_container_description" -> new_container_description(w1, s.arg)
          [] OTHER -> w1

\* a pipeline as its owner builds it: __init__(codec), what the subclass
\* assigns (stream_compressor, container_format, volume), and
\* setup_pipeline_and_bus()
Construct(cfg) ==
    LET w == [sound |-> [SoundPipeline(cfg.codec)
                           EXCEPT !.stream_compressor = cfg.stream_compressor,
                                  !.container_format = cfg.container_format,
                                  !.volume = cfg.volume],
              glib |-> NewMainLoop]
    IN  setup_pipeline_and_bus(w, cfg.launched)

\* SoundPipeline("opus") and a successful setup_pipeline_and_bus()
OpusPipeline ==
    [codec |-> "opus", stream_compressor |-> PyNone, container_format |-> "",
     volume |-> NoAttribute, launched |-> TRUE]

(***************************************************************************)
(* The state of the process outside the registries.                        *)
(***************************************************************************)
NoInstance == 0

InitProcess ==
    /\ instance = MainReg
    /\ got = [t \in Threads |-> NoInstance]
    /\ sound = Construct(OpusPipeline).sound
    /\ glib = Construct(OpusPipeline).glib

Init ==
    /\ heap = OrNewDicts(EmptyHeap, MainReg, NoArgs)
    /\ reg = (MainReg :> NewVideoHelper(EmptyHeap, MainReg, NoArgs, FALSE))
    /\ codecs = {}
    /\ fault \in FaultConfigs
    /\ pc = [t \in Threads |-> "idle"]
    /\ op = [t \in Threads |-> "none"]
    /\ self = [t \in Threads |-> MainReg]
    /\ iter = [t \in Threads |-> <<>>]
    /\ frame = [t \in Threads |-> NoFrame]
    /\ newreg = [t \in Threads |-> 0]
    /\ out = [t \in Threads |-> ""]
    /\ adds = 0
    /\ torn = <<>>
    /\ ret = NoResult
    /\ InitProcess
    /\ sel = <<>>

\* a thread enters an operation on registry r
Enter(t, name, r) ==
    /\ op' = [op EXCEPT ![t] = name]
    /\ self' = [self EXCEPT ![t] = r]

(***************************************************************************)
(* set_modules(video_encoders, csc_modules, video_decoders)                *)
(***************************************************************************)
\* `assert not self._initialized`; the call then holds its arguments until it
\* has assigned them
set_modules_call(t, r, ve, cm, vd) ==
    /\ pc[t] = "idle"
    /\ r \in DOMAIN reg
    /\ op' = [op EXCEPT ![t] = "set_modules"]
    /\ self' = [self EXCEPT ![t] = r]
    /\ newreg' = [newreg EXCEPT ![t] = 0]
    /\ IF reg[r]._initialized
       THEN /\ out' = [out EXCEPT ![t] = "AssertionError"]
            /\ UNCHANGED <<pc, frame>>
       ELSE /\ out' = [out EXCEPT ![t] = ""]
            /\ pc' = [pc EXCEPT ![t] = "set_video_encoders"]
            /\ frame' = [frame EXCEPT ![t].args = <<ve, cm, vd>>]
    /\ UNCHANGED <<heap, reg, codecs, fault, instance, got, sound, glib, torn, ret, iter, adds>>

AssignPcs == {"set_video_encoders", "set_csc_modules", "set_video_decoders"}

AssignedField(p) ==
    CASE p = "set_video_encoders" -> "video_encoders"
      [] p = "set_csc_modules" -> "csc_modules"
      [] p = "set_video_decoders" -> "video_decoders"

AfterAssign(p) ==
    CASE p = "set_video_encoders" -> "set_csc_modules"
      [] p = "set_csc_modules" -> "set_video_decoders"
      [] p = "set_video_decoders" -> "idle"

\* self.video_encoders = filt(...), self.csc_modules = filt(...) and
\* self.video_decoders = filt(...): one assignment a step, no lock held
SetModulesAssign(t) ==
    /\ pc[t] \in AssignPcs
    /\ reg' = [reg EXCEPT ![self[t]] = set_modules_assign(@, AssignedField(pc[t]), frame[t].args)]
    /\ pc' = [pc EXCEPT ![t] = AfterAssign(pc[t])]
    /\ frame' = [frame EXCEPT ![t] = IF pc[t] = "set_video_decoders" THEN NoFrame ELSE @]
    /\ UNCHANGED <<heap, codecs, fault, instance, got, sound, glib, torn, ret, sel, op, self, iter,
                   newreg, out, adds>>

SetModules(t, r, ve, cm, vd) ==
    /\ set_modules_call(t, r, ve, cm, vd)
    /\ UNCHANGED sel

\* set_modules, with the arguments of a call that was accepted kept in `sel`
Select(t, r, ve, cm, vd) ==
    /\ set_modules_call(t, r, ve, cm, vd)
    /\ sel' = IF reg[r]._initialized THEN sel ELSE <<ve, cm, vd>>

(***************************************************************************)
(* init()                                                                  *)
(***************************************************************************)
\* init() without the check of _initialized under the lock
InitLock_no_recheck(t, r, back) ==
    /\ reg[r]._lock = NoThread
    /\ out' = [out EXCEPT ![t] = IF reg[r]._initialized THEN "initialized=True" ELSE "initialized=False"]
    /\ pc' = [pc EXCEPT ![t] = "enc_begin"]
    /\ reg' = [reg EXCEPT ![r]._lock = t]
    /\ UNCHANGED <<heap, codecs, fault, instance, got, sound, glib, torn, ret, sel, iter, frame, adds>>

\* init() entering its body whether or not the lock is free
InitLock_unguarded(t, r, back) ==
    /\ IF reg[r]._initialized
       THEN /\ out' = [out EXCEPT ![t] = "initialized=True"]
            /\ pc' = [pc EXCEPT ![t] = back]
            /\ reg' = reg
       ELSE /\ out' = [out EXCEPT ![t] = "initialized=False"]
            /\ pc' = [pc EXCEPT ![t] = "enc_begin"]
            /\ reg' = [reg EXCEPT ![r]._lock = t]
    /\ UNCHANGED <<heap, codecs, fault, instance, got, sound, glib, torn, ret, sel, iter, frame, adds>>

\* `with self._lock:` and the check of _initialized made under it, which it
\* logs; `back` is where the caller goes on when init() returns at once
InitLock(t, r, back) ==
    /\ reg[r]._lock = NoThread
    /\ IF reg[r]._initialized
       THEN /\ out' = [out EXCEPT ![t] = "initialized=True"]
            /\ pc' = [pc EXCEPT ![t] = back]
            /\ reg' = reg
       ELSE /\ out' = [out EXCEPT ![t] = "initialized=False"]
            /\ pc' = [pc EXCEPT ![t] = "enc_begin"]
            /\ reg' = [reg EXCEPT ![r]._lock = t]
    /\ UNCHANGED <<heap, codecs, fault, instance, got, sound, glib, torn, ret, sel, iter, frame, adds>>

InitCall(t, r) ==
    /\ pc[t] = "idle"
    /\ r \in DOMAIN reg
    /\ Enter(t, "init", r)
    /\ newreg' = [newreg EXCEPT ![t] = 0]
    /\ InitLock(t, r, "idle")

PhaseOf(p) ==
    CASE p \in {"enc_begin", "enc_loop"} -> "enc"
      [] p \in {"csc_begin", "csc_loop"} -> "csc"
      [] p \in {"dec_begin", "dec_loop"} -> "dec"

AfterPhase(ph) ==
    CASE ph = "enc" -> "csc_begin"
      [] ph = "csc" -> "dec_begin"
      [] ph = "dec" -> "init_done"

LoopPc(ph) ==
    CASE ph = "enc" -> "enc_loop"
      [] ph = "csc" -> "csc_loop"
      [] ph = "dec" -> "dec_loop"

\* One step of a population phase.  While the module under introspection has
\* registrations to make, the step is its next add_* call.  Otherwise it is
\* the next iteration of `for x in self.<modules>` up to the calls that
\* introspect x: at "*_begin" the module list is read and its first module
\* loaded, at "*_loop" the next one is.  An exhausted list ends the phase.
Populate(t) ==
    /\ pc[t] \in {"enc_begin", "enc_loop", "csc_begin", "csc_loop", "dec_begin", "dec_loop"}
    /\ LET r == self[t]
           ph == PhaseOf(pc[t])
           xs == IF pc[t] \in {"enc_begin", "csc_begin", "dec_begin"}
                 THEN reg[r][PhaseList(ph)] ELSE iter[t]
       IN  IF frame[t].todo # <<>>
           THEN /\ heap' = Register(heap, reg[r][PhaseTable(ph)], r, ph, Head(frame[t].todo))
                /\ frame' = [frame EXCEPT ![t].todo = Tail(@)]
                /\ pc' = [pc EXCEPT ![t] = IF Tail(frame[t].todo) = <<>> /\ iter[t] = <<>>
                                           THEN AfterPhase(ph) ELSE @]
                /\ UNCHANGED <<codecs, iter>>
           ELSE IF xs = <<>>
           THEN /\ pc' = [pc EXCEPT ![t] = AfterPhase(ph)]
                /\ UNCHANGED <<heap, codecs, iter, frame>>
           ELSE LET mod == ModuleName(ph, Head(xs))
                    cs1 == load_codec(codecs, fault, mod)
                    todo == Registrations(cs1, fault, ph, mod)
                    rest == remaining_modules(fault, ph, xs)
                IN  /\ codecs' = cs1
                    /\ iter' = [iter EXCEPT ![t] = rest]
                    /\ frame' = [frame EXCEPT ![t].todo = todo]
                    /\ pc' = [pc EXCEPT ![t] = IF todo = <<>> /\ rest = <<>>
                                               THEN AfterPhase(ph) ELSE LoopPc(ph)]
                    /\ heap' = heap
    /\ UNCHANGED <<reg, fault, instance, got, sound, glib, torn, ret, sel, op, self, newreg, out, adds>>

\* self._initialized = True, and the lock is released
InitDone(t) ==
    /\ pc[t] = "init_done"
    /\ reg' = [reg EXCEPT ![self[t]]._initialized = TRUE, ![self[t]]._lock = NoThread]
    /\ pc' = [pc EXCEPT ![t] = IF op[t] = "clone" THEN "clone_ves" ELSE "idle"]
    /\ UNCHANGED <<heap, codecs, fault, instance, got, sound, glib, torn, ret, sel, op, self, iter, frame, newreg, out, adds>>

(***************************************************************************)
(* cleanup()                                                               *)
(***************************************************************************)
\* whether module.cleanup_module() raises
TeardownRaises(f, module) == module \in DOMAIN f /\ f[module] = "raises_teardown"

\* the loop over cmods with no try/except around cleanup_module(): the first
\* module that raises ends it, and the exception leaves cleanup()
cleanup_modules_no_isolation(f, cmods) ==
    IF \E i \in 1..Len(cmods) : TeardownRaises(f, cmods[i])
    THEN [torn |-> SubSeq(cmods, 1, CHOOSE i \in 1..Len(cmods) :
                                        /\ TeardownRaises(f, cmods[i])
                                        /\ \A j \in 1..(i - 1) : ~TeardownRaises(f, cmods[j])),
          raised |-> TRUE]
    ELSE [torn |-> cmods, raised |-> FALSE]

\* `for module in cmods: try: module.cleanup_module() except Exception: log`:
\* the modules whose teardown was invoked, and whether an exception got out
cleanup_modules(f, cmods) == [torn |-> cmods, raised |-> FALSE]

\* `with self._lock:`, the check of _initialized, the log of the modules to
\* clean up and the teardown of the modules of _cleanup_modules
CleanupCall(t, r) ==
    /\ pc[t] = "idle"
    /\ r \in DOMAIN reg
    /\ Enter(t, "cleanup", r)
    /\ newreg' = [newreg EXCEPT ![t] = 0]
    /\ reg[r]._lock = NoThread
    /\ IF ~reg[r]._initialized
       THEN /\ out' = [out EXCEPT ![t] = ""]
            /\ UNCHANGED <<reg, pc, torn>>
       ELSE LET c == cleanup_modules(fault, reg[r]._cleanup_modules)
            IN  /\ torn' = torn \o c.torn
                /\ IF c.raised
                   THEN \* the exception leaves the `with` block and cleanup()
                        /\ out' = [out EXCEPT ![t] = "Exception"]
                        /\ reg' = [reg EXCEPT ![r]._cleanup_modules = <<>>]
                        /\ pc' = pc
                   ELSE /\ out' = [out EXCEPT ![t] = "cleanup modules"]
                        /\ reg' = [reg EXCEPT ![r]._lock = t, ![r]._cleanup_modules = <<>>]
                        /\ pc' = [pc EXCEPT ![t] = "cleanup_ves"]
    /\ UNCHANGED <<heap, codecs, fault, instance, got, sound, glib, ret, sel, iter, frame, adds>>

CopyPcs == {"clone_ves", "clone_ces", "clone_vds"}

CopiedTable(p) ==
    CASE p = "clone_ves" -> "_video_encoder_specs"
      [] p = "clone_ces" -> "_csc_encoder_specs"
      [] p = "clone_vds" -> "_video_decoder_specs"

ClearedTable(p) ==
    CASE p = "cleanup_ves" -> "_video_encoder_specs"
      [] p = "cleanup_ces" -> "_csc_encoder_specs"
      [] p = "cleanup_vds" -> "_video_decoder_specs"

AfterClear(p) ==
    CASE p = "cleanup_ves" -> "cleanup_ces"
      [] p = "cleanup_ces" -> "cleanup_vds"
      [] p = "cleanup_vds" -> "cleanup_video_encoders"

\* the table emptied of nothing: the assignment left out
clear_table_skipped(h, regs, r, tbl) == [heap |-> h, reg |-> regs, rebound |-> FALSE]

\* self.<table> = {} : the registry's field is bound to a new dictionary
clear_table(h, regs, r, tbl) ==
    [heap |-> NewDict(h, r, tbl),
     reg |-> [regs EXCEPT ![r][tbl] = Addr(r, tbl, <<>>)],
     rebound |-> TRUE]

\* the threads whose deepish_clone_dict walks the table tbl of registry r
Walking(r, tbl) ==
    {u \in Threads : /\ pc[u] \in CopyPcs
                     /\ self[u] = r
                     /\ CopiedTable(pc[u]) = tbl
                     /\ frame[u].sub # ""
                     /\ ~frame[u].detached}

\* self._video_encoder_specs = {}, self._csc_encoder_specs = {},
\* self._video_decoder_specs = {}: one assignment a step.  The dictionary the
\* field was bound to lives on, unchanged from now, as the indict of the
\* copies that walk it.
CleanupClear(t) ==
    /\ pc[t] \in {"cleanup_ves", "cleanup_ces", "cleanup_vds"}
    /\ LET c == clear_table(heap, reg, self[t], ClearedTable(pc[t]))
       IN  /\ reg' = c.reg
           /\ heap' = Collect(c.heap, c.reg, Building)
           /\ frame' = [u \in Threads |->
                           IF c.rebound /\ u \in Walking(self[t], ClearedTable(pc[t]))
                           THEN [frame[u] EXCEPT !.detached = TRUE,
                                                 !.frozen = Table(self[t], ClearedTable(pc[t]))]
                           ELSE frame[u]]
    /\ pc' = [pc EXCEPT ![t] = AfterClear(pc[t])]
    /\ UNCHANGED <<codecs, fault, instance, got, sound, glib, torn, ret, sel, op, self, iter, newreg, out, adds>>

EndPcs == {"cleanup_video_encoders", "cleanup_csc_modules", "cleanup_video_decoders",
           "cleanup_fin"}

AfterEnd(p) ==
    CASE p = "cleanup_video_encoders" -> "cleanup_csc_modules"
      [] p = "cleanup_csc_modules" -> "cleanup_video_decoders"
      [] p = "cleanup_video_decoders" -> "cleanup_fin"
      [] p = "cleanup_fin" -> "idle"

\* the end of cleanup() without the reset of the module lists
cleanup_end_keeps_lists(h, p) ==
    IF p = "cleanup_fin" THEN [h EXCEPT !._initialized = FALSE, !._lock = NoThread] ELSE h

\* The end of cleanup(), one assignment a step: self.video_encoders = [],
\* self.csc_modules = [], self.video_decoders = [], then
\* self._initialized = False, with which the `with` block ends and the lock
\* is released.
cleanup_end(h, p) ==
    CASE p = "cleanup_video_encoders" -> [h EXCEPT !.video_encoders = <<>>]
      [] p = "cleanup_csc_modules" -> [h EXCEPT !.csc_modules = <<>>]
      [] p = "cleanup_video_decoders" -> [h EXCEPT !.video_decoders = <<>>]
      [] p = "cleanup_fin" -> [h EXCEPT !._initialized = FALSE, !._lock = NoThread]

CleanupDone(t) ==
    /\ pc[t] \in EndPcs
    /\ reg' = [reg EXCEPT ![self[t]] = cleanup_end(@, pc[t])]
    /\ pc' = [pc EXCEPT ![t] = AfterEnd(pc[t])]
    /\ UNCHANGED <<heap, codecs, fault, instance, got, sound, glib, torn, ret, sel, op, self, iter, frame, newreg, out, adds>>

(***************************************************************************)
(* clone()                                                                 *)
(***************************************************************************)
FreeRegIds == {i \in RegIds : i \notin DOMAIN reg /\ \A t \in Threads : newreg[t] # i}

\* clone() without `if not self._initialized: self.init()`
CloneCall_no_init(t, r) ==
    /\ pc[t] = "idle"
    /\ r \in DOMAIN reg
    /\ FreeRegIds # {}
    /\ Enter(t, "clone", r)
    /\ out' = [out EXCEPT ![t] = ""]
    /\ newreg' = [newreg EXCEPT ![t] = CHOOSE i \in FreeRegIds : \A j \in FreeRegIds : i <= j]
    /\ pc' = [pc EXCEPT ![t] = "clone_ves"]
    /\ UNCHANGED <<heap, reg, codecs, fault, instance, got, sound, glib, torn, ret, sel, iter, frame, adds>>

\* `if not self._initialized: self.init()`
CloneCall(t, r) ==
    /\ pc[t] = "idle"
    /\ r \in DOMAIN reg
    /\ FreeRegIds # {}
    /\ Enter(t, "clone", r)
    /\ out' = [out EXCEPT ![t] = ""]
    /\ newreg' = [newreg EXCEPT ![t] = CHOOSE i \in FreeRegIds : \A j \in FreeRegIds : i <= j]
    /\ pc' = [pc EXCEPT ![t] = IF reg[r]._initialized THEN "clone_ves" ELSE "clone_init"]
    /\ UNCHANGED <<heap, reg, codecs, fault, instance, got, sound, glib, torn, ret, sel, iter, frame, adds>>

\* the init() that clone() calls
CloneInit(t) ==
    /\ pc[t] = "clone_init"
    /\ InitLock(t, self[t], "clone_ves")
    /\ UNCHANGED <<op, self, newreg>>

\* indict, the argument of deepish_clone_dict, as a value
Indict(t) ==
    IF frame[t].detached THEN frame[t].frozen ELSE Table(self[t], CopiedTable(pc[t]))

\* an exception leaves clone(): what it had built is dropped
CloneRaise(t, e) ==
    /\ out' = [out EXCEPT ![t] = e]
    /\ pc' = [pc EXCEPT ![t] = "idle"]
    /\ newreg' = [newreg EXCEPT ![t] = 0]
    /\ frame' = [frame EXCEPT ![t] = NoFrame]
    /\ heap' = Collect(heap, reg, Building \ {newreg[t]})
    /\ reg' = reg

\* ves = deepish_clone_dict(self._video_encoder_specs), then ces, then vds and
\* `return VideoHelper(ves, ces, vds, True)`, a step at a time:
\*   ""       the table is read from the source and passed, outd = {};
\*   "outer"  the head of `for enc, d in indict.items()`: the iterator, made
\*            when the loop is entered, yields the next item, ends the loop,
\*            or raises RuntimeError when indict has changed size since;
\*   "inner"  the same at the head of `for ifmt, l in d.items()`;
\*   "list"   `for v in l: outd.setdefault(enc, {}).setdefault(ifmt, []).append(v)`.
\* No lock is held.
CloneCopy(t) ==
    /\ pc[t] \in CopyPcs
    /\ LET tbl == CopiedTable(pc[t])
           f == frame[t]
           new == newreg[t]
           outd == Addr(new, tbl, <<>>)
       IN  CASE f.sub = "" ->
                    /\ heap' = NewDict(heap, new, tbl)
                    /\ frame' = [frame EXCEPT ![t].sub = "outer"]
                    /\ UNCHANGED <<reg, pc, out, newreg>>
             [] f.sub = "outer" ->
                    LET size == IF f.osize = NoSize THEN Len(Indict(t)) ELSE f.osize
                    IN  IF Len(Indict(t)) # size
                        THEN CloneRaise(t, "RuntimeError")
                        ELSE IF f.i < Len(Indict(t))
                        THEN /\ frame' = [frame EXCEPT ![t].osize = size,
                                                       ![t].i = f.i + 1,
                                                       ![t].sub = "inner",
                                                       ![t].j = 0,
                                                       ![t].isize = NoSize]
                             /\ UNCHANGED <<heap, reg, pc, out, newreg>>
                        ELSE IF pc[t] = "clone_vds"
                        THEN LET args == clone_result(reg, self[t], new)
                             IN  /\ heap' = OrNewDicts(heap, new, args)
                                 /\ reg' = (new :> NewVideoHelper(heap, new, args, TRUE)) @@ reg
                                 /\ pc' = [pc EXCEPT ![t] = "idle"]
                                 /\ frame' = [frame EXCEPT ![t] = NoFrame]
                                 /\ UNCHANGED <<out, newreg>>
                        ELSE /\ pc' = [pc EXCEPT ![t] = IF pc[t] = "clone_ves"
                                                        THEN "clone_ces" ELSE "clone_vds"]
                             /\ frame' = [frame EXCEPT ![t] = NoFrame]
                             /\ UNCHANGED <<heap, reg, out, newreg>>
             [] f.sub = "inner" ->
                    LET d == Indict(t)[f.i][2]
                        size == IF f.isize = NoSize THEN Len(d) ELSE f.isize
                    IN  IF Len(d) # size
                        THEN CloneRaise(t, "RuntimeError")
                        ELSE /\ frame' = [frame EXCEPT
                                              ![t].isize = size,
                                              ![t].j = IF f.j < Len(d) THEN f.j + 1 ELSE @,
                                              ![t].sub = IF f.j < Len(d) THEN "list" ELSE "outer"]
                             /\ UNCHANGED <<heap, reg, pc, out, newreg>>
             [] f.sub = "list" ->
                    LET item == Indict(t)[f.i]
                    IN  /\ heap' = clone_values(heap, outd, new, tbl, item[1],
                                                item[2][f.j][1], item[2][f.j][2])
                        /\ frame' = [frame EXCEPT ![t].sub = "inner"]
                        /\ UNCHANGED <<reg, pc, out, newreg>>
    /\ UNCHANGED <<codecs, fault, instance, got, sound, glib, torn, ret, sel, op, self, iter, adds>>

(***************************************************************************)
(* add_encoder_spec, add_csc_spec, add_decoder called directly.            *)
(***************************************************************************)
AddEncoderSpec(t, r, k1, k2) ==
    /\ pc[t] = "idle"
    /\ r \in DOMAIN reg
    /\ adds < MaxAdds
    /\ adds' = adds + 1
    /\ Enter(t, "add_encoder_spec", r)
    /\ out' = [out EXCEPT ![t] = ""]
    /\ newreg' = [newreg EXCEPT ![t] = 0]
    /\ heap' = add_encoder_spec(heap, reg[r]._video_encoder_specs, r, k1, k2,
                                get_spec("caller", k1, k2))
    /\ UNCHANGED <<reg, codecs, fault, instance, got, sound, glib, torn, ret, sel, pc, iter, frame>>

AddCscSpec(t, r, k1, k2) ==
    /\ pc[t] = "idle"
    /\ r \in DOMAIN reg
    /\ adds < MaxAdds
    /\ adds' = adds + 1
    /\ Enter(t, "add_csc_spec", r)
    /\ out' = [out EXCEPT ![t] = ""]
    /\ newreg' = [newreg EXCEPT ![t] = 0]
    /\ heap' = add_csc_spec(heap, reg[r]._csc_encoder_specs, r, k1, k2,
                            get_spec("caller", k1, k2))
    /\ UNCHANGED <<reg, codecs, fault, instance, got, sound, glib, torn, ret, sel, pc, iter, frame>>

AddDecoder(t, r, k1, k2) ==
    /\ pc[t] = "idle"
    /\ r \in DOMAIN reg
    /\ adds < MaxAdds
    /\ adds' = adds + 1
    /\ Enter(t, "add_decoder", r)
    /\ out' = [out EXCEPT ![t] = ""]
    /\ newreg' = [newreg EXCEPT ![t] = 0]
    /\ heap' = add_decoder(heap, reg[r]._video_decoder_specs, r, k1, k2, "caller", "caller")
    /\ UNCHANGED <<reg, codecs, fault, instance, got, sound, glib, torn, ret, sel, pc, iter, frame>>

(***************************************************************************)
(* Specifications.                                                         *)
(***************************************************************************)
\* the selections set_modules is called with
EncoderSelections == { <<"all">>, <<"x264", "bogus">> }
CscSelections == { <<"all">> }
DecoderSelections == { <<"all">> }

\* the steps of thread t
Step(t) ==
    \/ \E ve \in EncoderSelections, cm \in CscSelections, vd \in DecoderSelections :
           SetModules(t, MainReg, ve, cm, vd)
    \/ SetModulesAssign(t)
    \/ InitCall(t, MainReg)
    \/ Populate(t)
    \/ InitDone(t)
    \/ \E r \in RegIds : CleanupCall(t, r)
    \/ CleanupClear(t)
    \/ CleanupDone(t)
    \/ \E r \in RegIds : CloneCall(t, r)
    \/ CloneInit(t)
    \/ CloneCopy(t)
    \/ \E r \in RegIds : AddEncoderSpec(t, r, "h264", "YUV420P")
    \/ \E r \in RegIds : AddCscSpec(t, r, "BGRX", "YUV420P")
    \/ \E r \in RegIds : AddDecoder(t, r, "vp8", "YUV420P")

\* One caller: the operations run one after the other.
NextSeq == Step(1)
SpecSeq == Init /\ [][NextSeq]_vars

\* Several callers of the default registry's lifecycle.  The selection they
\* set has two encoders that register in one inner list, one of them under a
\* second colorspace too, and a decoder of two encodings.
LifeEncoders == { <<"x264", "nvenc">> }
LifeCscModules == { <<"swscale">> }
LifeDecoders == { <<"vpx">> }

LifeStep(t) ==
    \/ \E ve \in LifeEncoders, cm \in LifeCscModules, vd \in LifeDecoders :
           SetModules(t, MainReg, ve, cm, vd)
    \/ SetModulesAssign(t)
    \/ InitCall(t, MainReg)
    \/ Populate(t)
    \/ InitDone(t)
    \/ CleanupCall(t, MainReg)
    \/ CleanupClear(t)
    \/ CleanupDone(t)
    \/ CloneCall(t, MainReg)
    \/ CloneInit(t)
    \/ CloneCopy(t)

Next == \E t \in Threads : LifeStep(t)
Spec == Init /\ [][Next]_vars
(***************************************************************************)
(* Several callers of init() on a registry whose modules have been set.    *)
(***************************************************************************)
InitSelected ==
    /\ heap = OrNewDicts(EmptyHeap, MainReg, NoArgs)
    /\ \E ve \in EncoderSelections \cup {<<>>}, cm \in CscSelections, vd \in DecoderSelections \cup {<<"vpx">>} :
           /\ reg = (MainReg :> set_modules(NewVideoHelper(EmptyHeap, MainReg, NoArgs, FALSE), ve, cm, vd))
           /\ sel = <<ve, cm, vd>>
    /\ codecs = {}
    /\ fault \in FaultConfigs
    /\ pc = [t \in Threads |-> "idle"]
    /\ op = [t \in Threads |-> "none"]
    /\ self = [t \in Threads |-> MainReg]
    /\ iter = [t \in Threads |-> <<>>]
    /\ frame = [t \in Threads |-> NoFrame]
    /\ newreg = [t \in Threads |-> 0]
    /\ out = [t \in Threads |-> ""]
    /\ adds = 0
    /\ torn = <<>>
    /\ ret = NoResult
    /\ InitProcess

NextInit ==
    \E t \in Threads :
        \/ InitCall(t, MainReg)
        \/ Populate(t)
        \/ InitDone(t)
SpecInit == InitSelected /\ [][NextInit]_vars

(***************************************************************************)
(* One caller cycling the default registry: set_modules, init, cleanup.    *)
(***************************************************************************)
NextCycle ==
    \/ \E ve \in EncoderSelections, cm \in CscSelections, vd \in DecoderSelections \cup {<<"vpx">>} :
           Select(1, MainReg, ve, cm, vd)
    \/ SetModulesAssign(1)
    \/ InitCall(1, MainReg)
    \/ Populate(1)
    \/ InitDone(1)
    \/ CleanupCall(1, MainReg)
    \/ CleanupClear(1)
    \/ CleanupDone(1)
SpecCycle == Init /\ [][NextCycle]_vars

(***************************************************************************)
(* set_modules on every selection list of up to MaxSelLen names, one table *)
(* at a time.                                                              *)
(***************************************************************************)
SeqsUpTo(S, n) == UNION {[1..k -> S] : k \in 0..n}

EncoderNames == {"all", "", "bogus", "x264", "vpx", "-x264", "-vpx"}
CscNames == {"all", "", "bogus", "swscale", "libyuv", "-swscale", "-libyuv"}
DecoderNames == {"all", "", "bogus", "avcodec2", "vpx", "-avcodec2", "-vpx"}

NextSel ==
    \/ \E s \in SeqsUpTo(EncoderNames, MaxSelLen) : Select(1, MainReg, s, <<>>, <<>>)
    \/ \E s \in SeqsUpTo(CscNames, MaxSelLen) : Select(1, MainReg, <<>>, s, <<>>)
    \/ \E s \in SeqsUpTo(DecoderNames, MaxSelLen) : Select(1, MainReg, <<>>, <<>>, s)
    \/ SetModulesAssign(1)
SpecSel == Init /\ [][NextSel]_vars

(***************************************************************************)
(* cleanup() of an initialized registry whose cleanup list holds module    *)
(* handles, some of them with a teardown that raises.                      *)
(***************************************************************************)
MaxCleanup == 2    \* length of the cleanup list

CleanupHandles == {"enc_x264", "csc_swscale", "dec_vpx"}
TeardownFaultConfigs == { AllOk, [AllOk EXCEPT !["enc_x264"] = "raises_teardown"] }

InitTeardown ==
    /\ fault \in TeardownFaultConfigs
    /\ LET root(tbl) == Addr(MainReg, tbl, <<>>)
           h0 == OrNewDicts(EmptyHeap, MainReg, NoArgs)
           r0 == set_modules(NewVideoHelper(EmptyHeap, MainReg, NoArgs, FALSE),
                             <<"all">>, <<"all">>, <<"all">>)
           e == PopulateAll(h0, root("_video_encoder_specs"), MainReg, {}, fault,
                            "enc", r0.video_encoders)
           c == PopulateAll(e.heap, root("_csc_encoder_specs"), MainReg, e.codecs, fault,
                            "csc", r0.csc_modules)
           d == PopulateAll(c.heap, root("_video_decoder_specs"), MainReg, c.codecs, fault,
                            "dec", r0.video_decoders)
       IN  /\ heap = d.heap
           /\ codecs = d.codecs
           /\ \E cmods \in SeqsUpTo(CleanupHandles, MaxCleanup) :
                  reg = (MainReg :> [r0 EXCEPT !._initialized = TRUE,
                                               !._cleanup_modules = cmods])
    /\ pc = [t \in Threads |-> "idle"]
    /\ op = [t \in Threads |-> "init"]
    /\ self = [t \in Threads |-> MainReg]
    /\ iter = [t \in Threads |-> <<>>]
    /\ frame = [t \in Threads |-> NoFrame]
    /\ newreg = [t \in Threads |-> 0]
    /\ out = [t \in Threads |-> ""]
    /\ adds = 0
    /\ torn = <<>>
    /\ ret = NoResult
    /\ InitProcess
    /\ sel = <<<<"all">>, <<"all">>, <<"all">>>>

SpecTeardown == InitTeardown /\ [][NextCycle]_vars

(***************************************************************************)
(* init() with every module enabled and one module that cannot be loaded   *)
(* or that raises while it declares.                                       *)
(***************************************************************************)
OneFaultConfigs ==
    {[AllOk EXCEPT ![c] = mode] : c \in KnownCodecs, mode \in {"absent", "raises"}}

InitOneFault ==
    /\ heap = OrNewDicts(EmptyHeap, MainReg, NoArgs)
    /\ reg = (MainReg :> set_modules(NewVideoHelper(EmptyHeap, MainReg, NoArgs, FALSE),
                                     <<"all">>, <<"all">>, <<"all">>))
    /\ sel = <<<<"all">>, <<"all">>, <<"all">>>>
    /\ codecs = {}
    /\ fault \in OneFaultConfigs
    /\ pc = [t \in Threads |-> "idle"]
    /\ op = [t \in Threads |-> "none"]
    /\ self = [t \in Threads |-> MainReg]
    /\ iter = [t \in Threads |-> <<>>]
    /\ frame = [t \in Threads |-> NoFrame]
    /\ newreg = [t \in Threads |-> 0]
    /\ out = [t \in Threads |-> ""]
    /\ adds = 0
    /\ torn = <<>>
    /\ ret = NoResult
    /\ InitProcess

SpecFaults == InitOneFault /\ [][NextInit]_vars

(***************************************************************************)
(* The read side: get_encoder_specs, get_csc_specs, get_decoder_specs,     *)
(* get_server_full_csc_modes and get_server_full_csc_modes_for_rgb.        *)
(***************************************************************************)
\* the characters of the names used, in code point order
Chars == "0123456789ABCDEFGHIJKLMNOPQRSTUVWXYZ_abcdefghijklmnopqrstuvwxyz"
ord(ch) == CHOOSE i \in 1..Len(Chars) : SubSeq(Chars, i, i) = ch

RECURSIVE str_lt(_, _)
\* a < b on python strings
str_lt(a, b) ==
    IF Len(a) = 0 THEN Len(b) > 0
    ELSE IF Len(b) = 0 THEN FALSE
    ELSE IF SubSeq(a, 1, 1) = SubSeq(b, 1, 1)
         THEN str_lt(SubSeq(a, 2, Len(a)), SubSeq(b, 2, Len(b)))
         ELSE ord(SubSeq(a, 1, 1)) < ord(SubSeq(b, 1, 1))

RECURSIVE insert_item(_, _)
\* item put into the sorted sequence s after the items whose key is not greater
insert_item(item, s) ==
    IF s = <<>> THEN <<item>>
    ELSE IF str_lt(item[1], Head(s)[1]) THEN <<item>> \o s
         ELSE <<Head(s)>> \o insert_item(item, Tail(s))

RECURSIVE sorted_items(_)
\* sorted(d.items()) for items <<key, value>> with string keys
sorted_items(items) ==
    IF items = <<>> THEN <<>>
    ELSE insert_item(items[Len(items)], sorted_items(SubSeq(items, 1, Len(items) - 1)))

\* sorted(l) for a list of strings
sorted(l) ==
    LET items == sorted_items([i \in 1..Len(l) |-> <<l[i], l[i]>>])
    IN  [i \in 1..Len(items) |-> items[i][1]]

\* decoder_module.get_output_colorspace(encoding, colorspace): the decoders
\* give back the colorspace they are given, but for one that converts to RGB
get_output_colorspace(decoder_module, encoding, colorspace) ==
    IF decoder_module = "dec_rgb" THEN "RGB" ELSE colorspace

\* d.setdefault(key, {}): the lookup with the key added when it is missing
specs_get_setdefault(h, root, key) ==
    IF DictHas(h.dicts[root], key)
    THEN [heap |-> h, raised |-> FALSE, value |-> DictGet(TableOf(h, root), key)]
    ELSE [heap |-> [h EXCEPT !.dicts = (Addr(root[1], root[2], <<key>>) :> <<>>)
                                        @@ [@ EXCEPT ![root] = Append(@, <<key, Addr(root[1], root[2], <<key>>)>>)]],
          raised |-> FALSE, value |-> <<>>]

\* self._video_encoder_specs.get(encoding, {}) and its two likes: the inner
\* mapping under the key, or a new empty mapping
specs_get(h, root, key) ==
    [heap |-> h, raised |-> FALSE,
     value |-> IF DictHas(h.dicts[root], key) THEN DictGet(TableOf(h, root), key) ELSE <<>>]

get_encoder_specs(h, r, encoding) == specs_get(h, reg[r]._video_encoder_specs, encoding)
get_csc_specs(h, r, src_format) == specs_get(h, reg[r]._csc_encoder_specs, src_format)
get_decoder_specs(h, r, encoding) == specs_get(h, reg[r]._video_decoder_specs, encoding)

\* encoding_colorspaces = full_csc_modes.setdefault(encoding, []) and
\* `if colorspace not in encoding_colorspaces: encoding_colorspaces.append(colorspace)`
record_colorspace(full_csc_modes, encoding, colorspace) ==
    IF DictHas(full_csc_modes, encoding)
    THEN [i \in 1..Len(full_csc_modes) |->
             IF full_csc_modes[i][1] = encoding /\ ~InSeq(colorspace, full_csc_modes[i][2])
             THEN <<encoding, Append(full_csc_modes[i][2], colorspace)>>
             ELSE full_csc_modes[i]]
    ELSE Append(full_csc_modes, <<encoding, <<colorspace>>>>)

RECURSIVE over_decoder_specs(_, _, _, _, _)
\* for decoder_name, decoder_module in decoder_specs
over_decoder_specs(full_csc_modes, encoding, colorspace, decoder_specs, modes) ==
    IF decoder_specs = <<>> THEN full_csc_modes
    ELSE over_decoder_specs(
             IF InSeq(get_output_colorspace(Head(decoder_specs)[2], encoding, colorspace), modes)
             THEN record_colorspace(full_csc_modes, encoding, colorspace)
             ELSE full_csc_modes,
             encoding, colorspace, Tail(decoder_specs), modes)

RECURSIVE over_colorspaces(_, _, _, _)
\* for colorspace, decoder_specs in sorted(encoding_specs.items())
over_colorspaces(full_csc_modes, encoding, items, modes) ==
    IF items = <<>> THEN full_csc_modes
    ELSE over_colorspaces(
             over_decoder_specs(full_csc_modes, encoding, Head(items)[1], Head(items)[2], modes),
             encoding, Tail(items), modes)

RECURSIVE over_encodings(_, _, _)
\* for encoding, encoding_specs in self._video_decoder_specs.items()
over_encodings(full_csc_modes, table, modes) ==
    IF table = <<>> THEN full_csc_modes
    ELSE over_encodings(
             over_colorspaces(full_csc_modes, Head(table)[1], sorted_items(Head(table)[2]), modes),
             Tail(table), modes)

\* the colorspace tested in place of the decoder's output colorspace
get_server_full_csc_modes_by_input(h, r, client_supported_csc_modes) ==
    LET table == TableOf(h, reg[r]._video_decoder_specs)
        kept == [i \in 1..Len(table) |->
                    <<table[i][1],
                      DictKeys(SelectSeq(sorted_items(table[i][2]),
                                         LAMBDA it : InSeq(it[1], client_supported_csc_modes)))>>]
    IN  SelectSeq(kept, LAMBDA e : e[2] # <<>>)

\* get_server_full_csc_modes(*client_supported_csc_modes): the dictionary
\* full_csc_modes as the sequence of its <<encoding, colorspaces>> items
get_server_full_csc_modes(h, r, client_supported_csc_modes) ==
    over_encodings(<<>>, TableOf(h, reg[r]._video_decoder_specs), client_supported_csc_modes)

\* for dst_format, csc_specs in specs.items(): whether the loop reaches its
\* append and break
reaches_rgb(specs, target_rgb_modes) ==
    \E j \in 1..Len(specs) : InSeq(specs[j][1], target_rgb_modes) /\ specs[j][2] # <<>>

\* the source formats left out of the modes handed on
get_server_full_csc_modes_for_rgb_only(h, r, target_rgb_modes) ==
    get_server_full_csc_modes(h, r, sorted(target_rgb_modes))

\* get_server_full_csc_modes_for_rgb(*target_rgb_modes)
get_server_full_csc_modes_for_rgb(h, r, target_rgb_modes) ==
    LET table == TableOf(h, reg[r]._csc_encoder_specs)
        src_formats == DictKeys(SelectSeq(table, LAMBDA it : reaches_rgb(it[2], target_rgb_modes)))
        supported_csc_modes == sorted(target_rgb_modes \o src_formats)
    IN  get_server_full_csc_modes(h, r, supported_csc_modes)

\* a call that reads registry r: what it returns is kept in `ret`
Query(t, r, name, args, res) ==
    /\ pc[t] = "idle"
    /\ r \in DOMAIN reg
    /\ Enter(t, name, r)
    /\ newreg' = [newreg EXCEPT ![t] = 0]
    /\ out' = [out EXCEPT ![t] = ""]
    /\ heap' = res.heap
    /\ ret' = [call |-> name, self |-> r, args |-> args, raised |-> res.raised, value |-> res.value]
    /\ UNCHANGED <<reg, codecs, fault, instance, got, sound, glib, torn, sel, pc, iter, frame, adds>>

GetEncoderSpecs(t, r, encoding) ==
    Query(t, r, "get_encoder_specs", <<encoding>>, get_encoder_specs(heap, r, encoding))
GetCscSpecs(t, r, src_format) ==
    Query(t, r, "get_csc_specs", <<src_format>>, get_csc_specs(heap, r, src_format))
GetDecoderSpecs(t, r, encoding) ==
    Query(t, r, "get_decoder_specs", <<encoding>>, get_decoder_specs(heap, r, encoding))

\* the decoder table emptied by the call that walks it
GetServerFullCscModes_consuming(t, r, modes) ==
    /\ r \in DOMAIN reg
    /\ Query(t, r, "get_server_full_csc_modes", modes,
             [heap |-> NewDict(heap, r, "_video_decoder_specs"), raised |-> FALSE,
              value |-> get_server_full_csc_modes(heap, r, modes)])

GetServerFullCscModes(t, r, modes) ==
    /\ r \in DOMAIN reg
    /\ Query(t, r, "get_server_full_csc_modes", modes,
             [heap |-> heap, raised |-> FALSE, value |-> get_server_full_csc_modes(heap, r, modes)])

GetServerFullCscModesForRgb(t, r, modes) ==
    /\ r \in DOMAIN reg
    /\ Query(t, r, "get_server_full_csc_modes_for_rgb", modes,
             [heap |-> heap, raised |-> FALSE,
              value |-> get_server_full_csc_modes_for_rgb(heap, r, modes)])

\* add_encoder_spec, add_csc_spec or add_decoder called on registry r, h2 the
\* heap it leaves
AddCall(t, r, name, h2) ==
    /\ pc[t] = "idle"
    /\ r \in DOMAIN reg
    /\ adds' = adds + 1
    /\ Enter(t, name, r)
    /\ out' = [out EXCEPT ![t] = ""]
    /\ newreg' = [newreg EXCEPT ![t] = 0]
    /\ heap' = h2
    /\ UNCHANGED <<reg, codecs, fault, instance, got, sound, glib, torn, ret, sel, pc, iter, frame>>

(***************************************************************************)
(* One caller filling the tables of a registry entry by entry and          *)
(* querying it.                                                            *)
(***************************************************************************)
MaxEntries == 3    \* entries added to the tables

QueryEncodings == {"V1", "V2"}
QueryColorspaces == {"YUV420P", "YUV444P"}
QueryDecoders == {"dec_same", "dec_rgb"}
QueryCscPairs == {<<"YUV444P", "RGB">>, <<"YUV420P", "BGRX">>}
QueryKeys == {"V1", "V3", "YUV444P", "BGRX"}
ClientModes == {<<"RGB">>, <<"RGB2">>, <<"YUV444P", "YUV420P">>, <<"RGB", "YUV420P">>}
RgbModes == {<<"RGB">>, <<"BGRX">>, <<"RGB", "BGRX">>}

NextQuery ==
    \/ \E e \in QueryEncodings, c \in QueryColorspaces, d \in QueryDecoders :
           /\ adds < MaxEntries
           /\ AddCall(1, MainReg, "add_decoder",
                      add_decoder(heap, reg[MainReg]._video_decoder_specs, MainReg, e, c, d, d))
    \/ \E p \in QueryCscPairs :
           /\ adds < MaxEntries
           /\ AddCall(1, MainReg, "add_csc_spec",
                      add_csc_spec(heap, reg[MainReg]._csc_encoder_specs, MainReg, p[1], p[2],
                                   get_spec("caller", p[1], p[2])))
    \/ /\ adds < MaxEntries
       /\ AddCall(1, MainReg, "add_encoder_spec",
                  add_encoder_spec(heap, reg[MainReg]._video_encoder_specs, MainReg, "V1", "YUV420P",
                                   get_spec("caller", "V1", "YUV420P")))
    \/ \E k \in QueryKeys : GetEncoderSpecs(1, MainReg, k)
    \/ \E k \in QueryKeys : GetCscSpecs(1, MainReg, k)
    \/ \E k \in QueryKeys : GetDecoderSpecs(1, MainReg, k)
    \/ \E modes \in ClientModes : GetServerFullCscModes(1, MainReg, modes)
    \/ \E modes \in RgbModes : GetServerFullCscModesForRgb(1, MainReg, modes)

InitQuery == Init /\ fault = AllOk
SpecQuery == InitQuery /\ [][NextQuery]_vars

(***************************************************************************)
(* Definitions the properties are stated with.                             *)
(***************************************************************************)
PopulationPcs == {"enc_begin", "enc_loop", "csc_begin", "csc_loop", "dec_begin", "dec_loop", "init_done"}
CleanupPcs == {"cleanup_ves", "cleanup_ces", "cleanup_vds", "cleanup_video_encoders",
               "cleanup_csc_modules", "cleanup_video_decoders", "cleanup_fin"}
InPopulation(t) == pc[t] \in PopulationPcs

ModuleLists(r) == <<reg[r].video_encoders, reg[r].csc_modules, reg[r].video_decoders>>
Catalog(i) ==
    CASE i = 1 -> ALL_VIDEO_ENCODER_OPTIONS
      [] i = 2 -> ALL_CSC_MODULE_OPTIONS
      [] i = 3 -> ALL_VIDEO_DECODER_OPTIONS

\* The tables one init() run by a single caller builds in a new registry whose
\* module lists are ve, cm and vd.
SingleThreadedInit(ve, cm, vd, f) ==
    LET root(tbl) == Addr(0, tbl, <<>>)
        h0 == OrNewDicts(EmptyHeap, 0, NoArgs)
        e == PopulateAll(h0, root("_video_encoder_specs"), 0, {}, f, "enc", ve)
        c == PopulateAll(e.heap, root("_csc_encoder_specs"), 0, e.codecs, f, "csc", cm)
        d == PopulateAll(c.heap, root("_video_decoder_specs"), 0, c.codecs, f, "dec", vd)
    IN  [tbl \in TableNames |-> TableOf(d.heap, root(tbl))]

\* no inner list of registry r holds an entry twice
NoDuplicates(r) ==
    \A tbl \in TableNames :
        \A i \in 1..Len(Table(r, tbl)) :
            \A j \in 1..Len(Table(r, tbl)[i][2]) :
                LET l == Table(r, tbl)[i][2][j][2]
                IN  \A m, n \in 1..Len(l) : m # n => l[m] # l[n]

\* Every object a registry reaches was created for it: what justifies freeing
\* the objects of a table when its registry rebinds the table.
HeapOwned ==
    \A r \in DOMAIN reg, tbl \in TableNames :
        \A a \in Reachable(heap, reg[r][tbl]) : Owner(a) = r /\ a[2] = tbl

(***************************************************************************)
(* C1.  Callers of init() racing on one registry that is not initialized   *)
(* run one population pass between them: at most one caller is ever inside *)
(* the population, and once the registry is marked initialized no caller   *)
(* is, no inner list holds an entry twice, and the tables are those that   *)
(* one init() by a single caller builds from the same module lists.        *)
(***************************************************************************)
C1_OnePopulationPass ==
    /\ Cardinality({t \in Threads : InPopulation(t)}) <= 1
    /\ reg[MainReg]._initialized =>
          /\ \A t \in Threads : ~InPopulation(t)
          /\ NoDuplicates(MainReg)
          /\ Tables(MainReg) = SingleThreadedInit(reg[MainReg].video_encoders,
                                                  reg[MainReg].csc_modules,
                                                  reg[MainReg].video_decoders, fault)

\* two callers have both been through init(): one populated, one found the
\* registry initialized; the tables hold entries
C1_Witness ==
    /\ \E t, u \in Threads :
          /\ t # u
          /\ op[t] = "init" /\ pc[t] = "idle" /\ out[t] = "initialized=False"
          /\ op[u] = "init" /\ pc[u] = "idle" /\ out[u] = "initialized=True"
    /\ reg[MainReg]._initialized
    /\ Len(Table(MainReg, "_video_encoder_specs")) > 0
    /\ Len(Table(MainReg, "_video_decoder_specs")) > 0

(***************************************************************************)
(* C2.  init() called on a registry that is initialized returns at once:   *)
(* the step changes no registry (tables, module lists, flag, lock), loads  *)
(* no codec and leaves the caller where it was, with no population step.   *)
(***************************************************************************)
C2_InitIdempotent ==
    [][\A t \in Threads :
          (InitCall(t, MainReg) /\ reg[MainReg]._initialized)
              => /\ reg' = reg
                 /\ heap' = heap
                 /\ codecs' = codecs
                 /\ pc'[t] = "idle"]_vars

\* a caller's init() has found the registry initialized, with populated tables
C2_Witness ==
    \E t \in Threads :
        /\ op[t] = "init" /\ pc[t] = "idle" /\ out[t] = "initialized=True"
        /\ reg[MainReg]._initialized
        /\ Len(Table(MainReg, "_video_encoder_specs")) > 0

(***************************************************************************)
(* C3.  set_modules called once initialization has begun, whether the      *)
(* population is still running in another thread or has completed, raises  *)
(* and leaves the module lists as they were.                               *)
(***************************************************************************)
InitBegun(r) ==
    \/ reg[r]._initialized
    \/ \E u \in Threads : InPopulation(u) /\ self[u] = r

C3_SetModulesRejectedOnceInitBegun ==
    [][\A t \in Threads :
          \A ve \in LifeEncoders, cm \in LifeCscModules, vd \in LifeDecoders :
              (SetModules(t, MainReg, ve, cm, vd) /\ InitBegun(MainReg))
                  => /\ out'[t] = "AssertionError"
                     /\ ModuleLists(MainReg)' = ModuleLists(MainReg)]_vars

(***************************************************************************)
(* C4.  Whatever selection set_modules is given, each resulting module     *)
(* list holds only names of the catalog of its table.                      *)
(***************************************************************************)
C4_OnlyCatalogNames ==
    \A r \in DOMAIN reg :
        \A i \in 1..3 : SeqRange(ModuleLists(r)[i]) \subseteq SeqRange(Catalog(i))

(***************************************************************************)
(* C5.  After set_modules has accepted a selection and returned: "all"     *)
(* alone yields the full catalog of the table; "all" with "-X", X in the   *)
(* catalog, yields the catalog without X, in catalog order; and no name    *)
(* given with the exclusion prefix is in the resulting list.  The lists    *)
(* are a function of the arguments of the last accepted call alone, so the *)
(* same call made again yields the same lists.                             *)
(***************************************************************************)
C5_AllAndExclusions ==
    sel # <<>> /\ pc[1] = "idle" =>
        \A i \in 1..3 :
            LET s == sel[i]
                res == ModuleLists(MainReg)[i]
                cat == Catalog(i)
            IN  /\ res = filt(s, cat)
                /\ SeqRange(s) = {"all"} => res = cat
                /\ \A X \in SeqRange(cat) :
                       SeqRange(s) = {"all", "-" \o X}
                           => res = Filter(cat, SeqRange(cat) \ {X})
                /\ \A n \in 1..Len(s) :
                       startswith(s[n], "-") => ~InSeq(Tail(s[n]), res)

\* "all" with an exclusion has been applied to the encoders
C5_Witness ==
    /\ sel # <<>>
    /\ pc[1] = "idle"
    /\ sel[1] = <<"all", "-x264">>
    /\ op[1] = "set_modules" /\ out[1] = ""
    /\ reg[MainReg].video_encoders = <<"vpx", "nvenc">>

(***************************************************************************)
(* C6.  An operation applied to one registry (an entry added, cleanup(),   *)
(* init(), clone()) leaves the three tables of every other registry, outer *)
(* keys, inner keys and inner lists, and what get_encodings(),             *)
(* get_decodings() and get_csc_inputs() return for it, unchanged: a clone  *)
(* and its source do not affect each other, in either direction.           *)
(***************************************************************************)
Offered(r) == <<get_encodings(r), get_decodings(r), get_csc_inputs(r)>>

C6_CloneIndependent ==
    [][\A r2 \in DOMAIN reg :
          r2 # self'[1] => /\ r2 \in DOMAIN reg'
                           /\ Tables(r2)' = Tables(r2)
                           /\ Offered(r2)' = Offered(r2)]_vars

\* an entry has been added to one of a populated source and its clone, and
\* their tables now differ
C6_Witness ==
    /\ 2 \in DOMAIN reg
    /\ pc[1] = "idle"
    /\ op[1] \in {"add_encoder_spec", "add_csc_spec", "add_decoder"}
    /\ Len(Table(MainReg, "_video_encoder_specs")) > 0
    /\ Len(Table(2, "_video_encoder_specs")) > 0
    /\ Tables(2) # Tables(MainReg)

(***************************************************************************)
(* C7.  When clone() returns, the registry it returns is marked            *)
(* initialized and each of its three tables equals the source's table:     *)
(* same outer keys, same inner keys, same inner lists with the same        *)
(* entries in the same order.                                              *)
(***************************************************************************)
CloneReturned == op[1] = "clone" /\ pc[1] = "idle"

C7_CloneEqualsSource ==
    CloneReturned =>
        /\ newreg[1] \in DOMAIN reg
        /\ reg[newreg[1]]._initialized
        /\ Tables(newreg[1]) = Tables(self[1])

\* a clone has been returned whose encoder table has an inner list of two
\* entries and whose other tables hold entries too
C7_Witness ==
    /\ CloneReturned
    /\ newreg[1] \in DOMAIN reg
    /\ \E i \in 1..Len(Table(newreg[1], "_video_encoder_specs")) :
           \E j \in 1..Len(Table(newreg[1], "_video_encoder_specs")[i][2]) :
               Len(Table(newreg[1], "_video_encoder_specs")[i][2][j][2]) >= 2
    /\ Len(Table(newreg[1], "_csc_encoder_specs")) > 0
    /\ Len(Table(newreg[1], "_video_decoder_specs")) > 0

(***************************************************************************)
(* C8.  When clone() returns, its source is initialized; and when the      *)
(* source was not initialized at the call, the clone's tables hold every   *)
(* entry that the population pass of the source's module lists produces,   *)
(* so they are not the tables the source had before init().                *)
(***************************************************************************)
ContainsEntries(tables, produced) ==
    \A tbl \in TableNames :
        \A i \in 1..Len(Triples(produced[tbl])) :
            InSeq(Triples(produced[tbl])[i], Triples(tables[tbl]))

C8_CloneInitializesFirst ==
    CloneReturned =>
        /\ reg[self[1]]._initialized
        /\ out[1] = "initialized=False" =>
              ContainsEntries(Tables(newreg[1]),
                              SingleThreadedInit(reg[self[1]].video_encoders,
                                                 reg[self[1]].csc_modules,
                                                 reg[self[1]].video_decoders, fault))

\* clone() was called on a registry with modules set and not initialized,
\* and has returned a clone with entries in its tables
C8_Witness ==
    /\ CloneReturned
    /\ out[1] = "initialized=False"
    /\ self[1] = MainReg
    /\ reg[MainReg].video_encoders # <<>>
    /\ newreg[1] \in DOMAIN reg
    /\ Len(Table(newreg[1], "_video_encoder_specs")) > 0

(***************************************************************************)
(* C9.  As stated: whenever the registry is initialized, its tables are    *)
(* those one init() builds in a new registry with the module lists that    *)
(* were last set, also when a cleanup() came before the init().            *)
(***************************************************************************)
C9_Original ==
    (reg[MainReg]._initialized /\ pc[1] = "idle" /\ sel # <<>>) =>
        Tables(MainReg) = SingleThreadedInit(filt(sel[1], ALL_VIDEO_ENCODER_OPTIONS),
                                             filt(sel[2], ALL_CSC_MODULE_OPTIONS),
                                             filt(sel[3], ALL_VIDEO_DECODER_OPTIONS), fault)

(***************************************************************************)
(* C9, amended.  cleanup() empties the module lists, so the init() that    *)
(* follows it works from the lists set since: whenever the registry is     *)
(* initialized, also after any number of init()/cleanup() cycles, its      *)
(* tables are those one init() builds in a new registry with the module    *)
(* lists the registry has then.                                            *)
(***************************************************************************)
C9_CycleReproducesTables ==
    (reg[MainReg]._initialized /\ pc[1] = "idle") =>
        Tables(MainReg) = SingleThreadedInit(reg[MainReg].video_encoders,
                                             reg[MainReg].csc_modules,
                                             reg[MainReg].video_decoders, fault)

\* the registry is initialized with modules set and populated tables, and the
\* modules had been loaded by an earlier init() that a cleanup() undid: the
\* vpx encoder is loaded but is not among the modules set now
C9_Witness ==
    /\ reg[MainReg]._initialized
    /\ pc[1] = "idle"
    /\ op[1] = "init"
    /\ reg[MainReg].video_encoders = <<"x264", "bogus">>
    /\ "enc_vpx" \in codecs
    /\ Len(Table(MainReg, "_video_encoder_specs")) > 0

(***************************************************************************)
(* C10.  cleanup() on an initialized registry leaves its three tables      *)
(* empty, its three module lists empty, the registry not initialized and   *)
(* the lock free; cleanup() on a registry that is not initialized, such as *)
(* one just cleaned up, changes no registry, table or loaded module.       *)
(***************************************************************************)
C10_CleanupIdempotent ==
    /\ [](\A t \in Threads :
            (op[t] = "cleanup" /\ pc[t] = "idle" /\ out[t] = "cleanup modules")
                => /\ Tables(self[t]) = EmptyTables
                   /\ ModuleLists(self[t]) = <<<<>>, <<>>, <<>>>>
                   /\ ~reg[self[t]]._initialized
                   /\ reg[self[t]]._lock = NoThread)
    /\ [][\A t \in Threads : \A r \in DOMAIN reg :
            (CleanupCall(t, r) /\ ~reg[r]._initialized)
                => /\ reg' = reg
                   /\ heap' = heap
                   /\ codecs' = codecs
                   /\ pc' = pc]_vars

\* cleanup() has emptied a registry that had modules set and loaded, and a
\* second cleanup() of the same registry has then returned at once
C10_Witness ==
    /\ op[1] = "cleanup" /\ pc[1] = "idle" /\ out[1] = ""
    /\ self[1] = MainReg
    /\ ~reg[MainReg]._initialized
    /\ codecs # {}
    /\ Tables(MainReg) = EmptyTables

(***************************************************************************)
(* C11.  cleanup() of an initialized registry invokes cleanup_module() of  *)
(* every module that init() loaded for the registry's module lists, once   *)
(* each: every such module is in the cleanup list when cleanup() runs.     *)
(***************************************************************************)
\* the modules of the registry's module lists that the loader has loaded
LoadedModules(r) ==
    {m \in {get_encoder_module_name(reg[r].video_encoders[i]) : i \in 1..Len(reg[r].video_encoders)}
           \cup {get_csc_module_name(reg[r].csc_modules[i]) : i \in 1..Len(reg[r].csc_modules)}
           \cup {get_decoder_module_name(reg[r].video_decoders[i]) : i \in 1..Len(reg[r].video_decoders)} :
        get_codec(codecs, m) # NoCodec}

Occurrences(x, s) == Cardinality({i \in 1..Len(s) : s[i] = x})

C11_LoadedModulesTornDown ==
    [][\A t \in Threads :
          (CleanupCall(t, MainReg) /\ reg[MainReg]._initialized)
              => \A m \in LoadedModules(MainReg) :
                     /\ InSeq(m, reg[MainReg]._cleanup_modules)
                     /\ Occurrences(m, SubSeq(torn', Len(torn) + 1, Len(torn'))) = 1]_vars

(***************************************************************************)
(* C12.  cleanup() of an initialized registry invokes cleanup_module() of  *)
(* every module of the cleanup list, in order, also after one of them has  *)
(* raised; no exception leaves cleanup(), and when it has returned the     *)
(* three tables and the three module lists are empty and the registry is   *)
(* not initialized.                                                        *)
(***************************************************************************)
C12_TeardownIsolated ==
    /\ [][\A t \in Threads :
            (CleanupCall(t, MainReg) /\ reg[MainReg]._initialized)
                => /\ torn' = torn \o reg[MainReg]._cleanup_modules
                   /\ out'[t] = "cleanup modules"
                   /\ pc'[t] = "cleanup_ves"]_vars
    /\ [](\A t \in Threads :
            (op[t] = "cleanup" /\ pc[t] = "idle" /\ out[t] # "")
                => /\ out[t] = "cleanup modules"
                   /\ Tables(self[t]) = EmptyTables
                   /\ ModuleLists(self[t]) = <<<<>>, <<>>, <<>>>>
                   /\ ~reg[self[t]]._initialized
                   /\ reg[self[t]]._cleanup_modules = <<>>)

\* cleanup() has returned after the first module of a cleanup list of two
\* raised in its teardown, and the second module was torn down after it
C12_Witness ==
    /\ op[1] = "cleanup" /\ pc[1] = "idle" /\ out[1] = "cleanup modules"
    /\ Len(torn) = 2
    /\ TeardownRaises(fault, torn[1])
    /\ ~TeardownRaises(fault, torn[2])
    /\ Tables(MainReg) = EmptyTables
    /\ ~reg[MainReg]._initialized

(***************************************************************************)
(* C13.  When one enabled module cannot be loaded or raises while it       *)
(* declares, init() still ends with the registry initialized and with no   *)
(* exception raised to its caller, and every other enabled module, of the  *)
(* encoders, the csc modules and the decoders, has every format pair it    *)
(* declares registered in its table.  A population under way can always    *)
(* take its next step.                                                     *)
(***************************************************************************)
\* the entry module mod registers under <<k1, k2>> in phase ph
EntryOf(ph, mod, k1, k2) ==
    IF ph = "dec" THEN <<mod, mod>> ELSE get_spec(mod, k1, k2)

\* the list of registry r's table of phase ph under <<k1, k2>>, <<>> if none
EntriesAt(r, ph, k1, k2) ==
    LET found == SelectSeq(Triples(Table(r, PhaseTable(ph))),
                           LAMBDA tr : tr[1] = k1 /\ tr[2] = k2)
    IN  [i \in 1..Len(found) |-> found[i][3]]

FullyRegistered(r, ph, mod) ==
    \A i \in 1..Len(DeclaredPairs(mod)) :
        InSeq(EntryOf(ph, mod, DeclaredPairs(mod)[i][1], DeclaredPairs(mod)[i][2]),
              EntriesAt(r, ph, DeclaredPairs(mod)[i][1], DeclaredPairs(mod)[i][2]))

FailingModules(f) == {c \in DOMAIN f : f[c] \in {"absent", "raises"}}

C13_FailureIsolated ==
    /\ \A t \in Threads : out[t] # "Exception"
    /\ \A t \in Threads : InPopulation(t) => ENABLED (Populate(t) \/ InitDone(t))
    /\ \A t \in Threads :
          (op[t] = "init" /\ pc[t] = "idle") => reg[MainReg]._initialized
    /\ reg[MainReg]._initialized =>
          \A ph \in Phases :
              \A i \in 1..Len(reg[MainReg][PhaseList(ph)]) :
                  LET mod == ModuleName(ph, reg[MainReg][PhaseList(ph)][i])
                  IN  (mod \in KnownCodecs /\ mod \notin FailingModules(fault))
                          => FullyRegistered(MainReg, ph, mod)

\* init() has returned with the registry initialized although the first
\* encoder raised, and the encoders after it are registered
C13_Witness ==
    /\ fault["enc_x264"] = "raises"
    /\ reg[MainReg].video_encoders = <<"x264", "vpx", "nvenc">>
    /\ op[1] = "init" /\ pc[1] = "idle" /\ out[1] = "initialized=False"
    /\ reg[MainReg]._initialized
    /\ FullyRegistered(MainReg, "enc", "enc_vpx")
    /\ FullyRegistered(MainReg, "enc", "nvenc")
    /\ FullyRegistered(MainReg, "dec", "dec_vpx")

(***************************************************************************)
(* C14.  A module that cannot be loaded or that raises while it declares   *)
(* contributes nothing: once the registry is initialized no inner list of  *)
(* its tables holds an entry of that module.                               *)
(***************************************************************************)
\* the module of an entry: a spec <<"spec", module, k1, k2>> of an encoder or
\* csc module, or a decoder's <<decoder_name, decoder_module>>
EntryModule(entry) == entry[2]

C14_FailedModuleContributesNothing ==
    reg[MainReg]._initialized =>
        \A ph \in Phases :
            \A i \in 1..Len(Triples(Table(MainReg, PhaseTable(ph)))) :
                EntryModule(Triples(Table(MainReg, PhaseTable(ph)))[i][3])
                    \notin FailingModules(fault)

(***************************************************************************)
(* C15.  get_encoder_specs, get_csc_specs and get_decoder_specs never      *)
(* raise; for a key that is not an outer key of their table they return an *)
(* empty mapping and for one that is, the inner mapping under it; and the  *)
(* lookup leaves the tables and their outer keys as they were.             *)
(***************************************************************************)
LookupOk(tbl, k) ==
    /\ ~ret'.raised
    /\ ~InSeq(k, DictKeys(Table(MainReg, tbl))) => ret'.value = <<>>
    /\ InSeq(k, DictKeys(Table(MainReg, tbl))) => ret'.value = DictGet(Table(MainReg, tbl), k)
    /\ Tables(MainReg)' = Tables(MainReg)
    /\ Offered(MainReg)' = Offered(MainReg)
    /\ heap' = heap

C15_LookupNeverFails ==
    [][\A k \in QueryKeys :
          /\ GetEncoderSpecs(1, MainReg, k) => LookupOk("_video_encoder_specs", k)
          /\ GetCscSpecs(1, MainReg, k) => LookupOk("_csc_encoder_specs", k)
          /\ GetDecoderSpecs(1, MainReg, k) => LookupOk("_video_decoder_specs", k)]_vars

\* get_decoder_specs has been asked for an encoding the populated decoder
\* table does not hold, and has returned the empty mapping
C15_Witness ==
    /\ op[1] = "get_decoder_specs"
    /\ ret.call = "get_decoder_specs" /\ ret.args = <<"V3">>
    /\ ~ret.raised /\ ret.value = <<>>
    /\ get_decodings(MainReg) = <<"V1">>

(***************************************************************************)
(* C16.  get_server_full_csc_modes(P) returns a mapping in which encoding  *)
(* e has colorspace c in its list exactly when the decoder table holds,    *)
(* under (e, c), a decoder whose output colorspace for (e, c) is in P; an  *)
(* encoding is a key of the result once at most, and only with a list     *)
(* that is not empty.                                                      *)
(***************************************************************************)
\* whether the mapping `modes` lists colorspace c for encoding e
Lists(modes, e, c) == \E i \in 1..Len(modes) : modes[i][1] = e /\ InSeq(c, modes[i][2])

\* the encodings and colorspaces the decoder table of registry r is keyed on
DecoderEncodings(r) == SeqRange(get_decodings(r))
DecoderColorspaces(r) ==
    {Triples(Table(r, "_video_decoder_specs"))[i][2] :
        i \in 1..Len(Triples(Table(r, "_video_decoder_specs")))}

DecoderOutputsInto(r, e, c, P) ==
    \E i \in 1..Len(EntriesAt(r, "dec", e, c)) :
        get_output_colorspace(EntriesAt(r, "dec", e, c)[i][2], e, c) \in P

C16_ResolveByColorspace ==
    (op[1] = "get_server_full_csc_modes" /\ ret.call = "get_server_full_csc_modes") =>
        /\ \A e \in DecoderEncodings(MainReg) \cup QueryEncodings :
               \A c \in DecoderColorspaces(MainReg) \cup QueryColorspaces :
                   Lists(ret.value, e, c) <=> DecoderOutputsInto(MainReg, e, c, SeqRange(ret.args))
        /\ \A i \in 1..Len(ret.value) :
               /\ ret.value[i][2] # <<>>
               /\ ret.value[i][1] \in DecoderEncodings(MainReg)
               /\ SeqRange(ret.value[i][2]) \subseteq DecoderColorspaces(MainReg)
               /\ \A j \in 1..Len(ret.value) : ret.value[j][1] = ret.value[i][1] => j = i

\* one decoder entry (V1, YUV420P) with output RGB, and P = {RGB}: the result
\* is {V1: [YUV420P]}
C16_Witness ==
    /\ op[1] = "get_server_full_csc_modes" /\ ret.call = "get_server_full_csc_modes"
    /\ ret.args = <<"RGB">>
    /\ Table(MainReg, "_video_decoder_specs")
           = << <<"V1", << <<"YUV420P", << <<"dec_rgb", "dec_rgb">> >> >> >> >> >>
    /\ ret.value = << <<"V1", <<"YUV420P">> >> >>

(***************************************************************************)
(* C17.  In every list get_server_full_csc_modes returns no colorspace is  *)
(* there twice, and the colorspaces come in the order in which the decoder *)
(* table first got them as input colorspaces of that encoding.             *)
(***************************************************************************)
C17_DedupFirstSeenOrder ==
    (op[1] = "get_server_full_csc_modes" /\ ret.call = "get_server_full_csc_modes") =>
        \A i \in 1..Len(ret.value) :
            /\ \A m, n \in 1..Len(ret.value[i][2]) :
                   ret.value[i][2][m] = ret.value[i][2][n] => m = n
            /\ ret.value[i][2]
                   = Filter(DictKeys(DictGet(Table(MainReg, "_video_decoder_specs"), ret.value[i][1])),
                            SeqRange(ret.value[i][2]))

(***************************************************************************)
(* C18.  get_server_full_csc_modes_for_rgb(R) returns what                 *)
(* get_server_full_csc_modes returns for R together with X, X the input    *)
(* colorspaces of the csc table that have a list of specs, not empty, into *)
(* a member of R.                                                          *)
(***************************************************************************)
RECURSIVE SetAsSeq(_)
SetAsSeq(S) == IF S = {} THEN <<>> ELSE LET x == CHOOSE x \in S : TRUE IN <<x>> \o SetAsSeq(S \ {x})

OneHopInputs(r, R) ==
    {c \in SeqRange(get_csc_inputs(r)) : \E rgb \in R : EntriesAt(r, "csc", c, rgb) # <<>>}

C18_RgbIsColorspaceExtended ==
    (op[1] = "get_server_full_csc_modes_for_rgb" /\ ret.call = "get_server_full_csc_modes_for_rgb") =>
        ret.value = get_server_full_csc_modes(
                        heap, MainReg,
                        SetAsSeq(SeqRange(ret.args) \cup OneHopInputs(MainReg, SeqRange(ret.args))))

\* a csc spec YUV444P -> RGB and a decoder keyed on (V1, YUV444P): for R = {RGB}
\* the result holds YUV444P for V1, which get_server_full_csc_modes(RGB) lacks
C18_Witness ==
    /\ op[1] = "get_server_full_csc_modes_for_rgb"
    /\ ret.call = "get_server_full_csc_modes_for_rgb"
    /\ ret.args = <<"RGB">>
    /\ OneHopInputs(MainReg, {"RGB"}) = {"YUV444P"}
    /\ ret.value = << <<"V1", <<"YUV444P">> >> >>
    /\ get_server_full_csc_modes(heap, MainReg, <<"RGB">>) = <<>>

(***************************************************************************)
(* C19.  As stated: with a list of csc specs, not empty, from colorspace C *)
(* into a member of R, get_server_full_csc_modes_for_rgb(R) lists C for    *)
(* every encoding that has a decoder entry under input colorspace C; and   *)
(* it lists every (encoding, colorspace) that get_server_full_csc_modes(R) *)
(* lists.                                                                  *)
(***************************************************************************)
RgbReturned ==
    op[1] = "get_server_full_csc_modes_for_rgb" /\ ret.call = "get_server_full_csc_modes_for_rgb"

C19_Original ==
    RgbReturned =>
        /\ \A C \in OneHopInputs(MainReg, SeqRange(ret.args)) :
               \A e \in DecoderEncodings(MainReg) :
                   EntriesAt(MainReg, "dec", e, C) # <<>> => Lists(ret.value, e, C)
        /\ \A e \in DecoderEncodings(MainReg), c \in DecoderColorspaces(MainReg) :
               Lists(get_server_full_csc_modes(heap, MainReg, ret.args), e, c)
                   => Lists(ret.value, e, c)

(***************************************************************************)
(* C19, amended.  With a list of csc specs, not empty, from colorspace C   *)
(* into a member of R, get_server_full_csc_modes_for_rgb(R) lists C for    *)
(* every encoding that has, under input colorspace C, a decoder entry      *)
(* whose output colorspace for it is C, a member of R, or another          *)
(* colorspace with such a list of csc specs; and it lists every (encoding, *)
(* colorspace) that get_server_full_csc_modes(R) lists.                    *)
(***************************************************************************)
C19_SurfacesOneHopDecoders ==
    RgbReturned =>
        /\ \A C \in OneHopInputs(MainReg, SeqRange(ret.args)) :
               \A e \in DecoderEncodings(MainReg) :
                   DecoderOutputsInto(MainReg, e, C,
                                      SeqRange(ret.args) \cup OneHopInputs(MainReg, SeqRange(ret.args)))
                       => Lists(ret.value, e, C)
        /\ \A e \in DecoderEncodings(MainReg), c \in DecoderColorspaces(MainReg) :
               Lists(get_server_full_csc_modes(heap, MainReg, ret.args), e, c)
                   => Lists(ret.value, e, c)

\* a decoder keyed on (V1, YUV444P) that outputs YUV444P is surfaced through
\* the csc spec YUV444P -> RGB, next to a decoder of V2 that outputs RGB
C19_Witness ==
    /\ RgbReturned
    /\ ret.args = <<"RGB">>
    /\ "YUV444P" \in OneHopInputs(MainReg, {"RGB"})
    /\ EntriesAt(MainReg, "dec", "V1", "YUV444P") = << <<"dec_same", "dec_same">> >>
    /\ Lists(ret.value, "V1", "YUV444P")
    /\ ~Lists(get_server_full_csc_modes(heap, MainReg, <<"RGB">>), "V1", "YUV444P")
    /\ Lists(get_server_full_csc_modes(heap, MainReg, <<"RGB">>), "V2", "YUV420P")
    /\ Lists(ret.value, "V2", "YUV420P")

(***************************************************************************)
(* C20.  get_server_full_csc_modes and get_server_full_csc_modes_for_rgb   *)
(* change nothing: the heap with the three tables, the module lists, the   *)
(* cleanup list, the initialized flag and the loaded codecs are after the  *)
(* call what they were before it; and the same call on the registry as the *)
(* call left it returns the same result.                                   *)
(***************************************************************************)
QueryReadOnly ==
    /\ heap' = heap
    /\ reg' = reg
    /\ Tables(MainReg)' = Tables(MainReg)
    /\ codecs' = codecs
    /\ torn' = torn

C20_QueriesReadOnly ==
    [][/\ \A modes \in ClientModes :
             GetServerFullCscModes(1, MainReg, modes)
                 => /\ QueryReadOnly
                    /\ ret'.value = get_server_full_csc_modes(heap', MainReg, modes)
       /\ \A modes \in RgbModes :
             GetServerFullCscModesForRgb(1, MainReg, modes)
                 => /\ QueryReadOnly
                    /\ ret'.value = get_server_full_csc_modes_for_rgb(heap', MainReg, modes)]_vars

\* a query has returned a result that is not empty from tables holding
\* decoders and csc specs
C20_Witness ==
    /\ op[1] = "get_server_full_csc_modes" /\ ret.call = "get_server_full_csc_modes"
    /\ ret.value # <<>>
    /\ Len(Table(MainReg, "_video_decoder_specs")) = 2
    /\ Len(Table(MainReg, "_csc_encoder_specs")) = 1

(***************************************************************************)
(* init() on a registry whose module lists were set from any selection of  *)
(* up to MaxSelLen names, a name possibly given more than once.            *)
(***************************************************************************)
RepeatedEncoderNames == {"all", "x264", "vpx", "-x264"}
RepeatedCscSelections == { <<"all">>, <<"swscale", "swscale">> }
RepeatedDecoderSelections == { <<"all">>, <<"vpx", "vpx">> }

InitAnySelection ==
    /\ heap = OrNewDicts(EmptyHeap, MainReg, NoArgs)
    /\ \E ve \in SeqsUpTo(RepeatedEncoderNames, MaxSelLen),
          cm \in RepeatedCscSelections, vd \in RepeatedDecoderSelections :
           /\ reg = (MainReg :> set_modules(NewVideoHelper(EmptyHeap, MainReg, NoArgs, FALSE), ve, cm, vd))
           /\ sel = <<ve, cm, vd>>
    /\ codecs = {}
    /\ fault = AllOk
    /\ pc = [t \in Threads |-> "idle"]
    /\ op = [t \in Threads |-> "none"]
    /\ self = [t \in Threads |-> MainReg]
    /\ iter = [t \in Threads |-> <<>>]
    /\ frame = [t \in Threads |-> NoFrame]
    /\ newreg = [t \in Threads |-> 0]
    /\ out = [t \in Threads |-> ""]
    /\ adds = 0
    /\ torn = <<>>
    /\ ret = NoResult
    /\ InitProcess

NextInitOne ==
    \/ InitCall(1, MainReg)
    \/ Populate(1)
    \/ InitDone(1)
SpecAnySelection == InitAnySelection /\ [][NextInitOne]_vars

\* no inner list of registry r holds two entries of one producing module
UniqueByModule(r) ==
    \A tbl \in TableNames :
        \A i \in 1..Len(Table(r, tbl)) :
            \A j \in 1..Len(Table(r, tbl)[i][2]) :
                LET l == Table(r, tbl)[i][2][j][2]
                IN  \A m, n \in 1..Len(l) : m # n => EntryModule(l[m]) # EntryModule(l[n])

\* C21: after set_modules with any selection lists followed by init(), every
\* inner list of the encoder, csc and decoder tables holds at most one entry
\* per producing module.
C21_UniqueByModule ==
    (reg[MainReg]._initialized /\ pc[1] = "idle") => UniqueByModule(MainReg)

\* the entries of `table` under <<k1, k2>>, <<>> if none
EntriesIn(table, k1, k2) ==
    LET found == SelectSeq(Triples(table), LAMBDA tr : tr[1] = k1 /\ tr[2] = k2)
    IN  [i \in 1..Len(found) |-> found[i][3]]

\* the <<k1, k2, entry>> of `table` that are not under <<k1, k2>>
EntriesElsewhere(table, k1, k2) ==
    SelectSeq(Triples(table), LAMBDA tr : ~(tr[1] = k1 /\ tr[2] = k2))

\* this step appends v to the list of registry r's table tbl under <<k1, k2>>
\* and changes no other list of any table of any registry
OnlyAppends(r, tbl, k1, k2, v) ==
    /\ EntriesIn(TableOf(heap', reg'[r][tbl]), k1, k2)
           = Append(EntriesIn(TableOf(heap, reg[r][tbl]), k1, k2), v)
    /\ EntriesElsewhere(TableOf(heap', reg'[r][tbl]), k1, k2)
           = EntriesElsewhere(TableOf(heap, reg[r][tbl]), k1, k2)
    /\ \A r2 \in DOMAIN reg : \A tbl2 \in TableNames :
           <<r2, tbl2>> # <<r, tbl>>
               => TableOf(heap', reg'[r2][tbl2]) = TableOf(heap, reg[r2][tbl2])

\* C22: add_encoder_spec, add_csc_spec and add_decoder only append: the list
\* under (k1, k2) becomes the previous list (empty if absent) with v at the
\* end, and every other inner list of that table and of the other tables,
\* of this and of every other registry, is unchanged.
C22_AddsOnlyAppend ==
    [][\A r \in RegIds :
          /\ AddEncoderSpec(1, r, "h264", "YUV420P")
                 => OnlyAppends(r, "_video_encoder_specs", "h264", "YUV420P",
                                get_spec("caller", "h264", "YUV420P"))
          /\ AddCscSpec(1, r, "BGRX", "YUV420P")
                 => OnlyAppends(r, "_csc_encoder_specs", "BGRX", "YUV420P",
                                get_spec("caller", "BGRX", "YUV420P"))
          /\ AddDecoder(1, r, "vp8", "YUV420P")
                 => OnlyAppends(r, "_video_decoder_specs", "vp8", "YUV420P",
                                <<"caller", "caller">>)]_vars

\* a direct add_encoder_spec has appended to a list init() had filled
C22_Witness ==
    /\ op[1] = "add_encoder_spec"
    /\ Len(EntriesAt(self[1], "enc", "h264", "YUV420P")) >= 2
    /\ EntriesAt(self[1], "enc", "h264", "YUV420P")[Len(EntriesAt(self[1], "enc", "h264", "YUV420P"))]
           = get_spec("caller", "h264", "YUV420P")

\* thread t is inside the population phase of init() or the teardown-and-clear
\* phase of cleanup() on registry r
InTransition(t, r) == pc[t] \in PopulationPcs \cup CleanupPcs /\ self[t] = r

\* C23: on one registry the lifecycle transitions are mutually exclusive: no
\* two threads are at once inside the population phase of init() and/or the
\* teardown-and-clear phase of cleanup(), and the registry's lock is held, by
\* the thread in the transition, from the re-check of the initialized flag
\* until the flag is updated.
C23_TransitionsExclusive ==
    \A r \in DOMAIN reg :
        /\ \A t, u \in Threads : (InTransition(t, r) /\ InTransition(u, r)) => t = u
        /\ \A t \in Threads :
               InTransition(t, r) =>
                   /\ reg[r]._lock = t
                   /\ reg[r]._initialized = (pc[t] \in CleanupPcs)
        /\ reg[r]._lock # NoThread => InTransition(reg[r]._lock, r)

\* one thread is inside cleanup()'s clearing of the tables while another one,
\* in the init() its clone() calls, waits for the lock
C23_Witness ==
    \E t, u \in Threads :
        /\ pc[t] \in CleanupPcs
        /\ pc[u] = "clone_init"
        /\ self[t] = self[u]
        /\ ~ENABLED CloneInit(u)

(***************************************************************************)
(* clone() by one thread while another one runs cleanup() and init() on    *)
(* the same, populated registry.                                           *)
(***************************************************************************)
InitPopulated ==
    /\ fault \in FaultConfigs
    /\ LET root(tbl) == Addr(MainReg, tbl, <<>>)
           h0 == OrNewDicts(EmptyHeap, MainReg, NoArgs)
           r0 == set_modules(NewVideoHelper(EmptyHeap, MainReg, NoArgs, FALSE),
                             <<"all">>, <<"all">>, <<"all">>)
           e == PopulateAll(h0, root("_video_encoder_specs"), MainReg, {}, fault,
                            "enc", r0.video_encoders)
           c == PopulateAll(e.heap, root("_csc_encoder_specs"), MainReg, e.codecs, fault,
                            "csc", r0.csc_modules)
           d == PopulateAll(c.heap, root("_video_decoder_specs"), MainReg, c.codecs, fault,
                            "dec", r0.video_decoders)
       IN  /\ heap = d.heap
           /\ codecs = d.codecs
           /\ reg = (MainReg :> [r0 EXCEPT !._initialized = TRUE])
    /\ pc = [t \in Threads |-> "idle"]
    /\ op = [t \in Threads |-> "init"]
    /\ self = [t \in Threads |-> MainReg]
    /\ iter = [t \in Threads |-> <<>>]
    /\ frame = [t \in Threads |-> NoFrame]
    /\ newreg = [t \in Threads |-> 0]
    /\ out = [t \in Threads |-> ""]
    /\ adds = 0
    /\ torn = <<>>
    /\ ret = NoResult
    /\ InitProcess
    /\ sel = <<<<"all">>, <<"all">>, <<"all">>>>

NextCloneRace ==
    \/ CloneCall(1, MainReg)
    \/ CloneInit(1)
    \/ CloneCopy(1)
    \/ CleanupCall(2, MainReg)
    \/ CleanupClear(2)
    \/ CleanupDone(2)
    \/ InitCall(2, MainReg)
    \/ \E t \in Threads : Populate(t)
    \/ \E t \in Threads : InitDone(t)
SpecCloneRace == InitPopulated /\ [][NextCloneRace]_vars

\* the tables init() builds from the whole catalog
PopulatedTables ==
    SingleThreadedInit(ALL_VIDEO_ENCODER_OPTIONS, ALL_CSC_MODULE_OPTIONS,
                       ALL_VIDEO_DECODER_OPTIONS, fault)

\* C24: when clone() races with cleanup() on the same registry, the three
\* tables of the registry it returns are a consistent snapshot: all three as
\* the source had them before the cleanup, or all three as it has them after
\* (empty), never a mix of populated and cleared tables.
C24_CloneSnapshotConsistent ==
    (op[1] = "clone" /\ pc[1] = "idle" /\ newreg[1] \in DOMAIN reg)
        => Tables(newreg[1]) \in {PopulatedTables, EmptyTables}

(***************************************************************************)
(* get_info() and the probes of the installed modules it reports with.     *)
(***************************************************************************)
\* get_DEFAULT_VIDEO_ENCODERS(): the loop leaves at the first encoder found
get_DEFAULT_VIDEO_ENCODERS(cs) ==
    LET found == SelectSeq(ALL_VIDEO_ENCODER_OPTIONS,
                           LAMBDA x : get_codec(cs, get_encoder_module_name(x)) # NoCodec)
    IN  IF found = <<>> THEN <<>> ELSE <<Head(found)>>

get_DEFAULT_CSC_MODULES(cs) ==
    SelectSeq(ALL_CSC_MODULE_OPTIONS, LAMBDA x : get_codec(cs, get_csc_module_name(x)) # NoCodec)

modstatus(x, def_list, active_list) ==
    IF InSeq(x, active_list) THEN "active"
    ELSE IF InSeq(x, def_list) THEN "disabled"
    ELSE "not found"

\* spec.codec_type: the module a spec comes from
codec_type(spec) == spec[2]

\* d.setdefault(key, []).append(v) on an info dictionary
info_append(d, key, v) ==
    IF DictHas(d, key)
    THEN [i \in 1..Len(d) |-> IF d[i][1] = key THEN <<key, Append(d[i][2], v)>> ELSE d[i]]
    ELSE Append(d, <<key, <<v>>>>)

\* d[key] = l on an info dictionary
info_assign(d, key, l) ==
    IF DictHas(d, key)
    THEN [i \in 1..Len(d) |-> IF d[i][1] = key THEN <<key, l>> ELSE d[i]]
    ELSE Append(d, <<key, l>>)

RECURSIVE einfo_specs(_, _)
\* einfo.setdefault("%s_to_%s" % (in_csc, encoding), []).append(spec.codec_type)
einfo_specs(d, triples) ==
    IF triples = <<>> THEN d
    ELSE einfo_specs(info_append(d, triples[1][2] \o "_to_" \o triples[1][1],
                                 codec_type(triples[1][3])),
                     Tail(triples))

RECURSIVE dinfo_specs(_, _)
\* dinfo.setdefault("%s_to_%s" % (encoding, out_csc), []).append(decoder[0])
dinfo_specs(d, triples) ==
    IF triples = <<>> THEN d
    ELSE dinfo_specs(info_append(d, triples[1][1] \o "_to_" \o triples[1][2], triples[1][3][1]),
                     Tail(triples))

\* for k1, d in table.items(): for k2, l in d.items(): <<k1, k2, l>>
InnerLists(table) ==
    Concat([i \in 1..Len(table) |->
        [j \in 1..Len(table[i][2]) |-> <<table[i][1], table[i][2][j][1], table[i][2][j][2]>>]])

RECURSIVE cinfo_specs(_, _)
\* cinfo["%s_to_%s" % (in_csc, out_csc)] = [spec.codec_type for spec in specs]
cinfo_specs(d, lists) ==
    IF lists = <<>> THEN d
    ELSE cinfo_specs(info_assign(d, lists[1][1] \o "_to_" \o lists[1][2],
                                 [n \in 1..Len(lists[1][3]) |-> codec_type(lists[1][3][n])]),
                     Tail(lists))

get_info(h, r, cs) ==
    LET einfo == einfo_specs(<<>>, Triples(TableOf(h, reg[r]._video_encoder_specs)))
        cinfo == cinfo_specs(<<>>, InnerLists(TableOf(h, reg[r]._csc_encoder_specs)))
        dinfo == dinfo_specs(<<>>, Triples(TableOf(h, reg[r]._video_decoder_specs)))
        venc == [i \in 1..Len(ALL_VIDEO_ENCODER_OPTIONS) |->
                    <<ALL_VIDEO_ENCODER_OPTIONS[i],
                      modstatus(ALL_VIDEO_ENCODER_OPTIONS[i], get_DEFAULT_VIDEO_ENCODERS(cs),
                                reg[r].video_encoders)>>]
        cscm == [i \in 1..Len(ALL_CSC_MODULE_OPTIONS) |->
                    <<ALL_CSC_MODULE_OPTIONS[i],
                      modstatus(ALL_CSC_MODULE_OPTIONS[i], get_DEFAULT_CSC_MODULES(cs),
                                reg[r].csc_modules)>>]
    IN  [heap |-> h, raised |-> FALSE,
         value |-> [encoding |-> info_assign(info_assign(einfo, "video-encoder", venc),
                                             "csc-module", cscm),
                    decoding |-> dinfo,
                    csc |-> cinfo]]

GetInfo(t, r) == Query(t, r, "get_info", <<>>, get_info(heap, r, codecs))

\* One caller cycling the default registry and asking for its report.
NextInfo ==
    \/ NextCycle
    \/ GetInfo(1, MainReg)
SpecInfo == Init /\ [][NextInfo]_vars

\* the status the report gives module x under `section` of "encoding"
ReportedStatus(section, x) == DictGet(DictGet(ret.value.encoding, section), x)

\* the three-way status of module x of a category whose installed modules are
\* those the loader holds under the names `module_name` gives
ThreeWayStatus(x, active_list, installed) ==
    IF InSeq(x, active_list) THEN "active"
    ELSE IF installed THEN "disabled"
    ELSE "not found"

\* C25: in get_info(), each catalog module gets a three-way status: "active"
\* if it is in the registry's enabled-module list, otherwise "disabled" if it
\* is installed (the probe of the installed defaults returning all installed
\* modules of the category), otherwise "not found"; in particular every
\* installed encoder that is not enabled is reported "disabled".
C25_ThreeWayStatus ==
    (op[1] = "get_info" /\ ret.call = "get_info") =>
        /\ \A x \in SeqRange(ALL_VIDEO_ENCODER_OPTIONS) :
               ReportedStatus("video-encoder", x)
                   = ThreeWayStatus(x, reg[MainReg].video_encoders,
                                    get_codec(codecs, get_encoder_module_name(x)) # NoCodec)
        /\ \A x \in SeqRange(ALL_CSC_MODULE_OPTIONS) :
               ReportedStatus("csc-module", x)
                   = ThreeWayStatus(x, reg[MainReg].csc_modules,
                                    get_codec(codecs, get_csc_module_name(x)) # NoCodec)

\* the place of module `mod` in the module list of phase ph of registry r
ModuleIndex(r, ph, mod) ==
    LET xs == reg[r][PhaseList(ph)]
    IN  CHOOSE i \in 1..Len(xs) :
            /\ ModuleName(ph, xs[i]) = mod
            /\ \A j \in 1..(i - 1) : ModuleName(ph, xs[j]) # mod

\* the entries of every inner list of registry r's table of phase ph are in
\* the order of the modules in the phase's module list
InDiscoveryOrder(r, ph) ==
    \A i \in 1..Len(InnerLists(Table(r, PhaseTable(ph)))) :
        LET l == InnerLists(Table(r, PhaseTable(ph)))[i][3]
        IN  \A m, n \in 1..Len(l) :
                m < n => ModuleIndex(r, ph, EntryModule(l[m])) <= ModuleIndex(r, ph, EntryModule(l[n]))

IsPrefix(s, t) == Len(s) <= Len(t) /\ SubSeq(t, 1, Len(s)) = s

\* every inner list of a table of registry r is, after this step, the list it
\* was, possibly with entries added at its end
ListsOnlyGrow(r) ==
    \A tbl \in TableNames :
        \A i \in 1..Len(InnerLists(TableOf(heap, reg[r][tbl]))) :
            LET old == InnerLists(TableOf(heap, reg[r][tbl]))[i]
            IN  IsPrefix(old[3], EntriesIn(TableOf(heap', reg'[r][tbl]), old[1], old[2]))

\* C26: after init(), within every inner list of each table the entries
\* appear in discovery order: an entry produced by module A precedes an entry
\* produced by module B whenever A precedes B in that table's module list,
\* and no registration made during the population reorders earlier entries.
C26_DiscoveryOrder ==
    /\ [](reg[MainReg]._initialized => \A ph \in Phases : InDiscoveryOrder(MainReg, ph))
    /\ [][\A t \in Threads : Populate(t) => ListsOnlyGrow(MainReg)]_vars

\* init() has returned and left an encoder list with the entries of two
\* modules, x264's before nvenc's as in the module list
C26_Witness ==
    /\ reg[MainReg]._initialized
    /\ reg[MainReg].video_encoders = <<"x264", "vpx", "nvenc">>
    /\ Len(EntriesAt(MainReg, "enc", "h264", "YUV420P")) = 2
    /\ EntryModule(EntriesAt(MainReg, "enc", "h264", "YUV420P")[1]) = "enc_x264"
    /\ EntryModule(EntriesAt(MainReg, "enc", "h264", "YUV420P")[2]) = "nvenc"
    /\ Len(EntriesAt(MainReg, "dec", "vp8", "YUV420P")) = 2

(***************************************************************************)
(* Several callers of init() and clone() on a registry whose modules have  *)
(* been set.                                                               *)
(***************************************************************************)
NextInitClone ==
    \E t \in Threads :
        \/ InitCall(t, MainReg)
        \/ Populate(t)
        \/ InitDone(t)
        \/ CloneCall(t, MainReg)
        \/ CloneInit(t)
        \/ CloneCopy(t)
SpecInitClone == InitSelected /\ [][NextInitClone]_vars


\* C27: a clone() invoked while another thread is inside init() on the same
\* registry copies only once that population pass has finished, and the
\* registry it returns holds the fully populated tables; clone() never
\* triggers a second population pass, never copies partially populated
\* tables and never fails on a table that changes under it.
C27_CloneWaitsForInit ==
    \A t \in Threads :
        /\ pc[t] \in CopyPcs =>
               /\ reg[MainReg]._initialized
               /\ \A u \in Threads : ~InPopulation(u)
               /\ Tables(MainReg) = SingleThreadedInit(reg[MainReg].video_encoders, reg[MainReg].csc_modules,
                                                      reg[MainReg].video_decoders, fault)
        /\ (op[t] = "clone" /\ pc[t] = "idle") => out[t] # "RuntimeError"
        /\ (op[t] = "clone" /\ pc[t] = "idle" /\ newreg[t] \in DOMAIN reg) =>
               /\ Tables(newreg[t]) = SingleThreadedInit(reg[MainReg].video_encoders, reg[MainReg].csc_modules,
                                                      reg[MainReg].video_decoders, fault)
               /\ Tables(MainReg) = Tables(newreg[t])

\* a clone() that found the registry uninitialized, waited for the lock while
\* another thread populated the tables, found the flag set under the lock and
\* returned a populated copy
C27_Witness ==
    \E t, u \in Threads :
        /\ t # u
        /\ op[t] = "clone" /\ pc[t] = "idle" /\ newreg[t] \in DOMAIN reg
        /\ out[t] = "initialized=True"
        /\ op[u] = "init" /\ out[u] = "initialized=False"
        /\ Table(newreg[t], "_video_decoder_specs") # <<>>

(***************************************************************************)
(* getVideoHelper(): the module's global `instance`, created on demand.    *)
(***************************************************************************)
HelperIds == 1..NThreads

\* `if instance is None:`
GetVideoHelperCall(t) ==
    /\ pc[t] = "idle"
    /\ op' = [op EXCEPT ![t] = "getVideoHelper"]
    /\ out' = [out EXCEPT ![t] = ""]
    /\ got' = [got EXCEPT ![t] = NoInstance]
    /\ pc' = [pc EXCEPT ![t] = IF instance = NoInstance THEN "gvh_new" ELSE "gvh_return"]
    /\ UNCHANGED <<heap, reg, codecs, fault, self, iter, frame, newreg, adds, sel, torn, ret,
                   instance, sound, glib>>

\* `instance = VideoHelper()`
GetVideoHelperNew(t) ==
    /\ pc[t] = "gvh_new"
    /\ LET free == HelperIds \ DOMAIN reg
           i == CHOOSE x \in free : \A y \in free : x <= y
       IN  /\ free # {}
           /\ heap' = OrNewDicts(heap, i, NoArgs)
           /\ reg' = (i :> NewVideoHelper(heap, i, NoArgs, FALSE)) @@ reg
           /\ instance' = i
    /\ pc' = [pc EXCEPT ![t] = "gvh_return"]
    /\ UNCHANGED <<codecs, fault, op, self, iter, frame, newreg, out, adds, sel, torn, ret,
                   got, sound, glib>>

\* `return instance`
GetVideoHelperReturn(t) ==
    /\ pc[t] = "gvh_return"
    /\ got' = [got EXCEPT ![t] = instance]
    /\ pc' = [pc EXCEPT ![t] = "idle"]
    /\ UNCHANGED <<heap, reg, codecs, fault, op, self, iter, frame, newreg, out, adds, sel, torn, ret,
                   instance, sound, glib>>

\* the process before any VideoHelper exists: no registry yet, no thread in an operation
NoRegistry ==
    /\ heap = EmptyHeap
    /\ reg = <<>>
    /\ codecs = {}
    /\ fault = AllOk
    /\ pc = [t \in Threads |-> "idle"]
    /\ op = [t \in Threads |-> "none"]
    /\ self = [t \in Threads |-> NoInstance]
    /\ iter = [t \in Threads |-> <<>>]
    /\ frame = [t \in Threads |-> NoFrame]
    /\ newreg = [t \in Threads |-> 0]
    /\ out = [t \in Threads |-> ""]
    /\ adds = 0
    /\ torn = <<>>
    /\ ret = NoResult
    /\ sel = <<>>
    /\ instance = NoInstance
    /\ got = [t \in Threads |-> NoInstance]

InitNoInstance ==
    /\ NoRegistry
    /\ sound = Construct(OpusPipeline).sound
    /\ glib = Construct(OpusPipeline).glib

\* Several threads asking for the default VideoHelper and initializing the
\* one they were given.
NextSingleton ==
    \E t \in Threads :
        \/ GetVideoHelperCall(t)
        \/ GetVideoHelperNew(t)
        \/ GetVideoHelperReturn(t)
        \/ /\ got[t] # NoInstance
           /\ InitCall(t, got[t])
        \/ Populate(t)
        \/ InitDone(t)
SpecSingleton == InitNoInstance /\ [][NextSingleton]_vars

\* C28: getVideoHelper() yields a single default registry per process: every
\* call, calls made concurrently by several threads before the instance
\* exists included, returns the same VideoHelper, and at most one default
\* VideoHelper is ever created.
C28_Singleton ==
    /\ Cardinality(DOMAIN reg) <= 1
    /\ \A t, u \in Threads :
           (got[t] # NoInstance /\ got[u] # NoInstance) => got[t] = got[u]

(***************************************************************************)
(* The SoundPipeline driven by its callers, its bus and the main loop.     *)
(***************************************************************************)
World == [sound |-> sound, glib |-> glib]

VideoVars ==
    <<heap, reg, codecs, fault, pc, op, self, iter, frame, newreg, out, adds, sel, torn, ret,
      instance, got>>

\* a method or callback has run to its end and left w
SoundStep(w) ==
    /\ w.glib.next <= MaxSources + 1
    /\ sound' = w.sound
    /\ glib' = w.glib
    /\ UNCHANGED VideoVars

\* a bus message that carries no tag
Message(type) ==
    [type |-> type, new_state |-> "", from_pipeline |-> TRUE, bitrate |-> -1,
     codec |-> "", audio_codec |-> "", mode |-> "", container_format |-> ""]

BusMessages ==
    {Message("EOS"),
     Message("ERROR"),
     Message("TAG"),
     [Message("TAG") EXCEPT !.bitrate = 128, !.audio_codec = "Opus", !.mode = "stereo",
                            !.container_format = "mka"],
     [Message("TAG") EXCEPT !.codec = "WAV"],
     Message("STREAM_START"),
     [Message("STATE_CHANGED") EXCEPT !.new_state = "PLAYING"],
     [Message("STATE_CHANGED") EXCEPT !.new_state = "PAUSED", !.from_pipeline = FALSE],
     Message("INFO")}

\* the pipelines the owners build
SoundConfigs ==
    {OpusPipeline,
     [OpusPipeline EXCEPT !.launched = FALSE],
     [OpusPipeline EXCEPT !.container_format = "ogg"],
     [OpusPipeline EXCEPT !.codec = "opus+ogg", !.volume = "volume"],
     [OpusPipeline EXCEPT !.codec = "wav+lz4", !.stream_compressor = "lz4"]}

ByteCounts == {1}
Volumes == {100}
ContainerDescriptions == {"MKA"}

InitSound ==
    /\ NoRegistry
    /\ \E cfg \in SoundConfigs :
           /\ sound = Construct(cfg).sound
           /\ glib = Construct(cfg).glib

Start == SoundStep(start(World).w)
Stop == SoundStep(stop(World))
Cleanup == SoundStep(cleanup(World))
EmitInfo == SoundStep(emit_info(World))

IncBufferCount ==
    /\ sound.buffer_count < MaxBufferCount
    /\ SoundStep(inc_buffer_count(World, 1))

IncByteCount(count) ==
    /\ sound.byte_count + count <= MaxByteCount
    /\ SoundStep(inc_byte_count(World, count))

SetVolume(volume) == SoundStep(set_volume(World, volume).w)

NewContainerDescription(desc) == SoundStep(new_container_description(World, desc))

\* the bus delivers a message to the connected handler
OnMessage(message) ==
    /\ glib.connected
    /\ SoundStep(on_message(World, message).w)

\* a pending source is due
Dispatch(s) ==
    /\ s \in glib.sources
    /\ SoundStep(dispatch(World, s))

NextSound ==
    \/ Start
    \/ Stop
    \/ Cleanup
    \/ EmitInfo
    \/ IncBufferCount
    \/ \E count \in ByteCounts : IncByteCount(count)
    \/ \E volume \in Volumes : SetVolume(volume)
    \/ \E desc \in ContainerDescriptions : NewContainerDescription(desc)
    \/ \E message \in BusMessages : OnMessage(message)
    \/ \E s \in glib.sources : Dispatch(s)
SpecSound == InitSound /\ [][NextSound]_vars

\* the pending sources that are info timers
InfoTimers == {s \in glib.sources : s.fn = "do_emit_info"}

\* C29: in SoundPipeline, for any interleaving of bus messages, emit_info()
\* calls, info-timer firings, stop() and cleanup(): at most one info timer is
\* pending at any time, the one emit_info_timer names (emit_info() while one
\* is pending schedules nothing), and the "info" signal is never emitted once
\* stop() or cleanup() has released the pipeline, the ERROR-message path
\* where cleanup() runs inside on_message included.
C29_OneInfoTimerNoInfoAfterRelease ==
    /\ [](/\ Cardinality(InfoTimers) <= 1
          /\ \A s \in InfoTimers : sound.emit_info_timer = s.id
          /\ sound.emit_info_timer # NoSource => InfoTimers # {})
    /\ [][/\ ~sound.pipeline =>
                 (~sound'.pipeline /\ glib'.info_emitted = glib.info_emitted)
          /\ (EmitInfo /\ sound.emit_info_timer # NoSource) => glib' = glib]_vars

\* "info" has been emitted, then an ERROR message has made on_message run
\* cleanup() and schedule a new info timer, which is pending on a released
\* pipeline
C29_Witness ==
    /\ glib.info_emitted >= 1
    /\ ~sound.pipeline
    /\ sound.codec = PyNone
    /\ \E s \in glib.sources : s.fn = "emit" /\ s.arg = "error"
    /\ InfoTimers # {}

=============================================================================
